---- MODULE Spec2Model ----
(***************************************************************************)
(* A model of the profile-feature extraction pipeline of MGDIL:            *)
(*   src/DatasetProcessCode/extract_profile_features.py                    *)
(*   src/code/process_fox8_json_streaming.py                               *)
(*   src/code/process_tweets_to_json.py                                    *)
(*   src/code/remove_repeat_id.py                                          *)
(*                                                                         *)
(* Python values are tagged records ([t |-> "int", v |-> 3], ...); a       *)
(* Python string is a sequence of one-character strings, so that strip(),  *)
(* lower(), float() and the regular expressions are computed character by  *)
(* character as the interpreter computes them.  A raised exception is the  *)
(* value Raised; every operator that can raise propagates it.              *)
(***************************************************************************)
EXTENDS Integers, Sequences, FiniteSets, TLC

VARIABLES
    pc,           \* "call" before the function under test runs, "done" after
    fn,           \* the function a behaviour calls
    args,         \* its argument tuple
    ret,          \* its return value, or Raised
    tool,         \* the batch driver a behaviour runs ("none" outside one)
    records,      \* the driver's input: the sequence of raw records
    idx,          \* position of the driver's loop in records
    output_dict,  \* the driver's output_dict
    status,       \* "idle", "running", "written" (output file dumped), "aborted"
    users,        \* process_csv: the users mapping loaded from the users JSON
    count_rows    \* process_csv: the number of rows turned into events

vars ==
    <<pc, fn, args, ret, tool, records, idx, output_dict, status, users,
      count_rows>>

(***************************************************************************)
(* Bounds of the model.                                                    *)
(***************************************************************************)
MaxLen == 3       \* longest enumerated raw string
MaxRecords == 2   \* longest enumerated input file, in records
MaxUrls == 3      \* longest enumerated list of voting URLs
MaxIds == 2       \* longest enumerated ID list of a dataset

(***************************************************************************)
(* Python values.                                                          *)
(***************************************************************************)
None == [t |-> "none"]
B(b) == [t |-> "bool", v |-> b]
I(n) == [t |-> "int", v |-> n]
\* a finite float, as the exact fraction num/den (den a power of ten)
Fl(n, d) == [t |-> "float", num |-> n, den |-> d]
Inf(sg) == [t |-> "inf", sign |-> sg]
NaN == [t |-> "nan"]
S(s) == [t |-> "str", v |-> s]
L(l) == [t |-> "list", v |-> l]
D(d) == [t |-> "dict", v |-> d]
Raised == [t |-> "raised"]
EmptyDict == D(<<>>)

IsRaised(x) == x = Raised

\* bool(x)
Truthy(x) ==
    CASE x.t = "none" -> FALSE
      [] x.t = "bool" -> x.v
      [] x.t = "int" -> x.v # 0
      [] x.t = "float" -> x.num # 0
      [] x.t \in {"inf", "nan"} -> TRUE
      [] x.t \in {"str", "list"} -> Len(x.v) > 0
      [] x.t = "dict" -> DOMAIN x.v # {}

\* x or y
Or(x, y) == IF Truthy(x) THEN x ELSE y

\* x and y
And(x, y) == IF Truthy(x) THEN y ELSE x

\* d.get(k, default) on a value d: AttributeError unless d is a dict
GetOr(d, k, default) ==
    IF d.t # "dict" THEN Raised
    ELSE IF k \in DOMAIN d.v THEN d.v[k] ELSE default

\* d.get(k)
Get(d, k) == GetOr(d, k, None)

(***************************************************************************)
(* Characters and strings.                                                 *)
(***************************************************************************)
UpperLetters ==
    <<"A","B","C","D","E","F","G","H","I","J","K","L","M",
      "N","O","P","Q","R","S","T","U","V","W","X","Y","Z">>
LowerLetters ==
    <<"a","b","c","d","e","f","g","h","i","j","k","l","m",
      "n","o","p","q","r","s","t","u","v","w","x","y","z">>
Digits == <<"0","1","2","3","4","5","6","7","8","9">>

Range(s) == {s[i] : i \in DOMAIN s}

\* the control characters of the model: TAB (also white space) and DEL
DEL == "\\x7f"
ControlChars == {"\t", "\n", DEL}
\* the no-break space U+00A0: white space that is no control character
NBSP == "U+00A0"
\* white space for str.strip(), float(), int() and the pattern \s
WhiteSpace == {" ", "\t", "\n", NBSP}

IsDigit(c) == c \in Range(Digits)
IsUpper(c) == c \in Range(UpperLetters)
IsLower(c) == c \in Range(LowerLetters)
IsLetter(c) == IsUpper(c) \/ IsLower(c)

DigitVal(c) == (CHOOSE i \in DOMAIN Digits : Digits[i] = c) - 1

LowerChar(c) ==
    IF IsUpper(c)
    THEN LowerLetters[CHOOSE i \in DOMAIN UpperLetters : UpperLetters[i] = c]
    ELSE c

\* str.lower()
Lower(s) == [i \in DOMAIN s |-> LowerChar(s[i])]

\* str.strip()
RECURSIVE LStrip(_)
LStrip(s) == IF s # <<>> /\ Head(s) \in WhiteSpace THEN LStrip(Tail(s)) ELSE s
RECURSIVE RStrip(_)
RStrip(s) ==
    IF s # <<>> /\ s[Len(s)] \in WhiteSpace
    THEN RStrip(SubSeq(s, 1, Len(s) - 1)) ELSE s
Strip(s) == RStrip(LStrip(s))

Min(set) == CHOOSE m \in set : \A n \in set : m <= n
Max(set) == CHOOSE m \in set : \A n \in set : n <= m

\* the first position >= from of a character of delims in s, Len(s) + 1 if none
FirstIndex(s, delims, from) ==
    LET hits == {i \in from..Len(s) : s[i] \in delims}
    IN  IF hits = {} THEN Len(s) + 1 ELSE Min(hits)

Drop(s, n) == SubSeq(s, n + 1, Len(s))

\* every string over alphabet of length at most n
StringsUpTo(alphabet, n) ==
    UNION {[1..k -> alphabet] : k \in 0..n}

AllDigits(s) == \A i \in DOMAIN s : IsDigit(s[i])

\* the value of a digit string
RECURSIVE DigitsVal(_)
DigitsVal(s) ==
    IF s = <<>> THEN 0
    ELSE 10 * DigitsVal(SubSeq(s, 1, Len(s) - 1)) + DigitVal(s[Len(s)])

RECURSIVE Pow10(_)
Pow10(k) == IF k = 0 THEN 1 ELSE 10 * Pow10(k - 1)

\* the decimal digits of n >= 0
RECURSIVE NatToStr(_)
NatToStr(n) ==
    IF n < 10 THEN <<Digits[n + 1]>>
    ELSE NatToStr(n \div 10) \o <<Digits[(n % 10) + 1]>>

IntToStr(n) == IF n < 0 THEN <<"-">> \o NatToStr(0 - n) ELSE NatToStr(n)

(***************************************************************************)
(* Conversions between Python values: str(x), float(x), int(x).            *)
(***************************************************************************)
Abs(n) == IF n < 0 THEN 0 - n ELSE n

RECURSIVE GCD(_, _)
GCD(a, b) == IF b = 0 THEN a ELSE GCD(b, a % b)

\* the float num/den in lowest terms
Ratio(num, den) ==
    LET g == GCD(Abs(num), den)
    IN  Fl(num \div g, den \div g)

Zero == Fl(0, 1)

\* the number of decimal places of a finite float literal: den = 10^k
RECURSIVE Places(_)
Places(den) == IF den <= 1 THEN 0 ELSE 1 + Places(den \div 10)

RECURSIVE ZeroPad(_, _)
ZeroPad(s, k) == IF Len(s) >= k THEN s ELSE ZeroPad(<<"0">> \o s, k)

\* repr of a finite float whose den is a power of ten: "12.7", "1.0", "-0.5"
FloatToStr(x) ==
    LET k == IF x.den = 1 THEN 1 ELSE Places(x.den)
        d == Pow10(k)
        n == Abs(x.num) * (d \div x.den)
    IN  (IF x.num < 0 THEN <<"-">> ELSE <<>>)
        \o NatToStr(n \div d) \o <<".">> \o ZeroPad(NatToStr(n % d), k)

\* ", ".join(parts)
RECURSIVE JoinComma(_)
JoinComma(parts) ==
    IF parts = <<>> THEN <<>>
    ELSE IF Len(parts) = 1 THEN parts[1]
    ELSE parts[1] \o <<",", " ">> \o JoinComma(Tail(parts))

\* str(x) for scalars, strings and lists (the str() of a dict is never taken
\* on the records of the model); repr(x) differs from it on strings only
RECURSIVE PyStr(_)
RECURSIVE PyRepr(_)
PyStr(x) ==
    CASE x.t = "none" -> <<"N","o","n","e">>
      [] x.t = "bool" -> IF x.v THEN <<"T","r","u","e">> ELSE <<"F","a","l","s","e">>
      [] x.t = "int" -> IntToStr(x.v)
      [] x.t = "float" -> FloatToStr(x)
      [] x.t = "inf" -> (IF x.sign < 0 THEN <<"-">> ELSE <<>>) \o <<"i","n","f">>
      [] x.t = "nan" -> <<"n","a","n">>
      [] x.t = "str" -> x.v
      [] x.t = "list" ->
            <<"[">> \o JoinComma([i \in DOMAIN x.v |-> PyRepr(x.v[i])]) \o <<"]">>
PyRepr(x) == IF x.t = "str" THEN <<"'">> \o x.v \o <<"'">> ELSE PyStr(x)

\* the sign of a numeric literal and the literal without it
Sign(s) == IF s # <<>> /\ s[1] = "-" THEN 0 - 1 ELSE 1
Unsigned(s) == IF s # <<>> /\ s[1] \in {"+", "-"} THEN Tail(s) ELSE s

\* the float of the decimal literal ip.fp: digits [. [digits]] | . digits
Decimal(sg, ip, fp) ==
    IF AllDigits(ip) /\ AllDigits(fp) /\ Len(ip) + Len(fp) > 0
    THEN Fl(sg * (DigitsVal(ip) * Pow10(Len(fp)) + DigitsVal(fp)), Pow10(Len(fp)))
    ELSE Raised

\* the float of the unsigned literal body, split at its first '.'
FloatOfBody(sg, body, dot) ==
    IF Lower(body) \in {<<"i","n","f">>, <<"i","n","f","i","n","i","t","y">>}
    THEN Inf(sg)
    ELSE IF Lower(body) = <<"n","a","n">> THEN NaN
    ELSE Decimal(sg, SubSeq(body, 1, dot - 1), SubSeq(body, dot + 1, Len(body)))

SignedFloat(sg, body) == FloatOfBody(sg, body, FirstIndex(body, {"."}, 1))

\* float(s) for a stripped string s: [sign] (digits [. [digits]] | . digits),
\* or [sign] inf | infinity | nan in any letter case; ValueError otherwise.
\* (Exponents and digit-group underscores need characters no enumerated
\* string of the model holds.)
ParseFloat(s) == SignedFloat(Sign(s), Unsigned(s))

\* float(x): TypeError on None and containers, ValueError on a bad string
PyFloat(x) ==
    CASE x.t = "bool" -> Fl(IF x.v THEN 1 ELSE 0, 1)
      [] x.t = "int" -> Fl(x.v, 1)
      [] x.t \in {"float", "inf", "nan"} -> x
      [] x.t = "str" -> ParseFloat(Strip(x.v))
      [] OTHER -> Raised

\* rounding toward minus infinity in place of truncation
TruncFloors(num, den) == num \div den

\* truncation toward zero
Trunc(num, den) == IF num < 0 THEN 0 - ((0 - num) \div den) ELSE num \div den

SignedInt(sg, body) ==
    IF body # <<>> /\ AllDigits(body) THEN I(sg * DigitsVal(body)) ELSE Raised

\* int(s) for a stripped string: [sign] digits; ValueError otherwise
ParseInt(s) == SignedInt(Sign(s), Unsigned(s))

\* int(x): OverflowError on an infinity, ValueError on a NaN or a bad string,
\* TypeError on None and containers
PyInt(x) ==
    CASE x.t = "bool" -> I(IF x.v THEN 1 ELSE 0)
      [] x.t = "int" -> x
      [] x.t = "float" -> I(Trunc(x.num, x.den))
      [] x.t = "str" -> ParseInt(Strip(x.v))
      [] OTHER -> Raised

(***************************************************************************)
(* The total coercions of extract_profile_features.py.                     *)
(***************************************************************************)
\* the except clause of safe_int: every exception becomes 0
IntOrZero(n) == IF IsRaised(n) THEN 0 ELSE n.v

\* int(f) of the float f that float(x) gave, inside the try of safe_int
IntOfFloat(f) == IF IsRaised(f) THEN 0 ELSE IntOrZero(PyInt(f))

\* safe_int: the try block returns 0 on None and on a blank str(x), else
\* int(float(x)); the except clause turns every exception into 0
safe_int(x) ==
    IF x = None \/ Strip(PyStr(x)) = <<>> THEN 0 ELSE IntOfFloat(PyFloat(x))

\* fa / fb for floats with fb > 0
FloatDiv(fa, fb) ==
    CASE fa.t = "nan" -> NaN
      [] fa.t = "inf" /\ fb.t = "inf" -> NaN
      [] fa.t = "inf" -> fa
      [] fb.t = "inf" -> Zero
      [] OTHER -> Ratio(fa.num * fb.den, fa.den * fb.num)

\* fb > 0
FloatPositive(fb) ==
    CASE fb.t = "nan" -> FALSE
      [] fb.t = "inf" -> fb.sign > 0
      [] OTHER -> fb.num > 0

\* the division guarded only against a zero divisor
QuotientNonzero(fa, fb) ==
    IF IsRaised(fa) \/ IsRaised(fb) THEN Zero
    ELSE IF fb.t = "float" /\ fa.t = "float" /\ fb.num < 0
         THEN Ratio((0 - fa.num) * fb.den, fa.den * (0 - fb.num))
    ELSE IF FloatPositive(fb) THEN FloatDiv(fa, fb) ELSE Zero

\* fa / fb if fb > 0 else 0.0, and 0.0 when float() raised
Quotient(fa, fb) ==
    IF IsRaised(fa) \/ IsRaised(fb) THEN Zero
    ELSE IF FloatPositive(fb) THEN FloatDiv(fa, fb) ELSE Zero

\* 0.0 if x is None else float(x)
FloatOrZero(x) == IF x = None THEN Zero ELSE PyFloat(x)

\* safe_div: 0.0 for None, a float() failure gives 0.0, and so does fb <= 0
safe_div(a, b) == Quotient(FloatOrZero(a), FloatOrZero(b))

TrueWords ==
    {<<"1">>, <<"t","r","u","e">>, <<"y","e","s">>, <<"y">>, <<"t">>}
FalseWords ==
    {<<"0">>, <<"f","a","l","s","e">>, <<"n","o">>, <<"n">>, <<"f">>}

\* a two-way reading: every unrecognised text is False
BoolOfWordTwoWay(s) == B(s \in TrueWords)

\* True / False on the two word sets, else None
BoolOfWord(s) ==
    IF s \in TrueWords THEN B(TRUE)
    ELSE IF s \in FalseWords THEN B(FALSE)
    ELSE None

\* parse_bool: None for None, else the reading of str(x).strip().lower()
parse_bool(x) == IF x = None THEN None ELSE BoolOfWord(Lower(Strip(PyStr(x))))

(***************************************************************************)
(* Text: the characters beyond ASCII, clean_text and the pattern library.  *)
(***************************************************************************)
\* the non-ASCII characters of the model, by code point: an emoticon, a
\* dingbat, five CJK ideographs (U+4E2D, and the promo keywords U+5408 U+4F5C
\* and U+5546 U+52A1) and a Latin letter with an accent
CodePoint ==
    "U+1F600" :> 128512 @@ "U+2764" :> 10084 @@ "U+4E2D" :> 20013 @@
    "U+5408" :> 21512 @@ "U+4F5C" :> 20316 @@ "U+5546" :> 21830 @@
    "U+52A1" :> 21153 @@ "U+00E9" :> 233

\* EMOJI_RE's character class: six code-point ranges
EmojiRanges ==
    {<<128512, 128591>>, <<127744, 128511>>, <<128640, 128767>>,
     <<127456, 127487>>, <<9986, 10160>>, <<9410, 127569>>}

IsEmoji(c) ==
    /\ c \in DOMAIN CodePoint
    /\ \E r \in EmojiRanges : r[1] <= CodePoint[c] /\ CodePoint[c] <= r[2]

\* [\u4e00-\u9fff]
IsCJK(c) == c \in DOMAIN CodePoint /\ 19968 <= CodePoint[c] /\ CodePoint[c] <= 40959

\* str.isalpha() on one character: ASCII letters, and the letters beyond ASCII
IsAlpha(c) ==
    \/ IsLetter(c)
    \/ c \in DOMAIN CodePoint /\ (IsCJK(c) \/ CodePoint[c] = 233)

\* str.isalnum() on one character
IsAlnum(c) == IsAlpha(c) \/ IsDigit(c)

\* the pattern \w
IsWord(c) == IsAlnum(c) \/ c = "_"

\* the pattern \s, and str.isspace()
IsSpace(c) == c \in WhiteSpace

\* re.sub(r'\s+', ' ', s): every run of white space becomes one space
RECURSIVE CollapseSpace(_)
CollapseSpace(s) ==
    IF s = <<>> THEN <<>>
    ELSE IF IsSpace(s[1])
         THEN IF Len(s) > 1 /\ IsSpace(s[2])
              THEN CollapseSpace(Tail(s))
              ELSE <<" ">> \o CollapseSpace(Tail(s))
         ELSE <<s[1]>> \o CollapseSpace(Tail(s))

\* white-space runs collapsed and the ends stripped, control characters kept
CleanKeepsControl(raw) == Strip(CollapseSpace(raw))

\* control characters to spaces, white-space runs collapsed, stripped
CleanChars(raw) ==
    Strip(CollapseSpace([i \in DOMAIN raw |->
                            IF raw[i] \in ControlChars THEN " " ELSE raw[i]]))

\* clean_text: '' for None, else str(s) cleaned
clean_text(s) == IF s = None THEN <<>> ELSE CleanChars(PyStr(s))

\* count_emoji: len(EMOJI_RE.findall(s)), the pattern being [...]+ : the
\* number of maximal runs of emoji characters
count_emoji(s) ==
    IF s = <<>> THEN 0
    ELSE Cardinality({i \in DOMAIN s :
            IsEmoji(s[i]) /\ (i = 1 \/ ~IsEmoji(s[i - 1]))})

\* re.search(r'@\w+', s) and re.search(r'#\w+', s)
HasSigilWord(s, sigil) ==
    \E i \in DOMAIN s : s[i] = sigil /\ i < Len(s) /\ IsWord(s[i + 1])

\* EMAIL_RE.search(s): [A-Za-z0-9._%+-]+@[A-Za-z0-9.-]+\.[A-Za-z]{2,}
EmailLocalChar(c) == IsLetter(c) \/ IsDigit(c) \/ c \in {".", "_", "%", "+", "-"}
EmailDomainChar(c) == IsLetter(c) \/ IsDigit(c) \/ c \in {".", "-"}
EmailSearch(s) ==
    \E at \in DOMAIN s, dot \in DOMAIN s :
        /\ s[at] = "@" /\ at > 1 /\ EmailLocalChar(s[at - 1])
        /\ dot > at + 1 /\ s[dot] = "."
        /\ \A j \in (at + 1)..(dot - 1) : EmailDomainChar(s[j])
        /\ dot + 2 <= Len(s) /\ IsLetter(s[dot + 1]) /\ IsLetter(s[dot + 2])

\* PHONE_RE.search(s): the two optional prefixes may match nothing, so a match
\* exists exactly when  \d{3,4}[-.\s]?\d{4}  matches somewhere
PhoneSearch(s) ==
    \E i \in DOMAIN s, n \in {3, 4}, sep \in {0, 1} :
        /\ i + n + sep + 3 <= Len(s)
        /\ \A j \in i..(i + n - 1) : IsDigit(s[j])
        /\ sep = 1 => (s[i + n] \in {"-", "."} \/ IsSpace(s[i + n]))
        /\ \A j \in (i + n + sep)..(i + n + sep + 3) : IsDigit(s[j])

\* k in s
Contains(s, k) ==
    \E i \in 0..(Len(s) - Len(k)) : SubSeq(s, i + 1, i + Len(k)) = k

StartsWith(s, p) == Len(p) <= Len(s) /\ SubSeq(s, 1, Len(p)) = p
EndsWith(s, p) == Len(p) <= Len(s) /\ SubSeq(s, Len(s) - Len(p) + 1, Len(s)) = p

promo_keywords ==
    {<<"b","u","s","i","n","e","s","s">>,
     <<"a","d","v","e","r","t","i","s","i","n","g">>,
     <<"p","r","o","m","o">>,
     <<"d","m">>,
     <<"U+5408","U+4F5C">>,
     <<"U+5546","U+52A1">>}

GENERIC_LOCATIONS ==
    {<<"e","a","r","t","h">>,
     <<"w","o","r","l","d">>,
     <<"p","e","a","c","e","f","u","l"," ","w","o","r","l","d">>,
     <<"s","o","m","e","w","h","e","r","e">>,
     <<"e","v","e","r","y","w","h","e","r","e">>}

(***************************************************************************)
(* URLs: urllib.parse.urlparse, and the URL domain classifier.             *)
(***************************************************************************)

\* url.lstrip(_WHATWG_C0_CONTROL_OR_SPACE)
RECURSIVE LStripC0(_)
LStripC0(s) ==
    IF s # <<>> /\ s[1] \in {" ", "\t", "\n"} THEN LStripC0(Tail(s)) ELSE s

NotTabNewline(c) == c \notin {"\t", "\n"}
SchemeChar(c) == IsLetter(c) \/ IsDigit(c) \/ c \in {"+", "-", "."}
HexOrColon(c) == IsDigit(c) \/ c \in {":", "a", "b", "c", "d", "e", "f"}

\* the text between the first '[' at position o and the next ']' is an IPv6
\* literal (of the model's characters: hex digits and colons, one colon at least)
BracketsHoldIPv6(netloc, o, c) ==
    /\ ":" \in Range(SubSeq(netloc, o + 1, c - 1))
    /\ \A i \in (o + 1)..(c - 1) : HexOrColon(netloc[i])

BracketedFrom(netloc, o) ==
    BracketsHoldIPv6(netloc, o, FirstIndex(netloc, {"]"}, o + 1))

\* urlsplit's checks of a netloc holding square brackets: one bracket without
\* the other is "Invalid IPv6 URL"; a pair must enclose an IPv6 literal
BadBrackets(netloc) ==
    \/ ("[" \in Range(netloc)) # ("]" \in Range(netloc))
    \/ /\ "[" \in Range(netloc)
       /\ ~BracketedFrom(netloc, FirstIndex(netloc, {"["}, 1))

Url(scheme, netloc, path) ==
    [t |-> "url", scheme |-> scheme, netloc |-> netloc, path |-> path]

\* the path: what follows the netloc, cut at the first '#' and then at '?'
CutQuery(nofrag) == SubSeq(nofrag, 1, FirstIndex(nofrag, {"?"}, 1) - 1)
PathOf(after) == CutQuery(SubSeq(after, 1, FirstIndex(after, {"#"}, 1) - 1))

CheckedUrl(scheme, netloc, path) ==
    IF BadBrackets(netloc) THEN Raised ELSE Url(scheme, netloc, path)

\* the netloc after '//' runs up to the first of / ? # at position delim
SplitNetloc(scheme, rest, delim) ==
    IF StartsWith(rest, <<"/", "/">>)
    THEN CheckedUrl(scheme, SubSeq(rest, 3, delim - 1), PathOf(Drop(rest, delim - 1)))
    ELSE Url(scheme, <<>>, PathOf(rest))

AfterScheme(scheme, rest) ==
    SplitNetloc(scheme, rest, FirstIndex(rest, {"/", "?", "#"}, 3))

\* the scheme ends at the first ':' (position colon) when a letter and then
\* scheme characters stand before it
SplitScheme(s, colon) ==
    IF /\ 1 < colon /\ colon <= Len(s)
       /\ IsLetter(s[1])
       /\ \A j \in 1..(colon - 1) : SchemeChar(s[j])
    THEN AfterScheme(Lower(SubSeq(s, 1, colon - 1)), Drop(s, colon))
    ELSE AfterScheme(<<>>, s)

SplitCleaned(s) == SplitScheme(s, FirstIndex(s, {":"}, 1))

\* urlsplit on a str: leading C0/space stripped, tab and newline removed, the
\* scheme split off at the first ':', the netloc after '//' up to the first of
\* / ? #, then fragment and query cut from the path.  ValueError on bad brackets.
\* (No URL of the model holds ';', which urlparse splits off as params.)
urlsplit(url) == SplitCleaned(SelectSeq(LStripC0(url), NotTabNewline))

\* urlparse(u): a str is split; any other true value has no decode()
\* (AttributeError); a false one parses as the empty URL
urlparse(u) ==
    IF u.t = "str" THEN urlsplit(u.v)
    ELSE IF Truthy(u) THEN Raised
    ELSE Url(<<>>, <<>>, <<>>)

HttpPrefix == <<"h","t","t","p",":","/","/">>

\* obj.get("expanded_url") or obj.get("url") or obj.get("display_url")
PickUrl(obj) ==
    Or(Or(Get(obj, "expanded_url"), Get(obj, "url")), Get(obj, "display_url"))

\* yield u, with http:// in front when urlparse(u) finds no scheme
\* (urlparse(u).scheme is taken outside any try)
WithScheme(u, parsed) ==
    IF IsRaised(parsed) THEN Raised
    ELSE IF parsed.scheme = <<>> THEN L(<<S(HttpPrefix \o u.v)>>)
    ELSE L(<<u>>)

\* the URL picked from an object of a list entity: only a str is parsed
YieldPicked(u) ==
    IF ~Truthy(u) THEN L(<<>>)
    ELSE IF u.t = "str" THEN WithScheme(u, urlparse(u))
    ELSE L(<<u>>)

\* what one element of a list entity yields: nothing, one URL, or Raised
IterListItem(obj) ==
    IF obj.t = "dict" THEN YieldPicked(PickUrl(obj))
    ELSE IF obj.t = "str" THEN L(<<obj>>)
    ELSE L(<<>>)

\* the URLs of the first element followed by those of the others
Chain(first, more) ==
    IF IsRaised(first) \/ IsRaised(more) THEN Raised ELSE L(first.v \o more.v)

RECURSIVE IterList(_)
IterList(objs) ==
    IF objs = <<>> THEN L(<<>>)
    ELSE Chain(IterListItem(objs[1]), IterList(Tail(objs)))

\* the URL picked from a single URL object: urlparse takes whatever it is
YieldSingle(u) == IF ~Truthy(u) THEN L(<<>>) ELSE WithScheme(u, urlparse(u))

\* list(_iter_urls_from_entity(url_entity)): the URLs of a list of URL
\* objects or strings, of one URL object, or of a bare string
iter_urls_from_entity(url_entity) ==
    IF ~Truthy(url_entity) THEN L(<<>>)
    ELSE IF url_entity.t = "list" THEN IterList(url_entity.v)
    ELSE IF url_entity.t = "dict" THEN YieldSingle(PickUrl(url_entity))
    ELSE IF url_entity.t = "str" THEN L(<<url_entity>>)
    ELSE L(<<>>)

StripPrefix(host, p) == IF StartsWith(host, p) THEN Drop(host, Len(p)) ELSE host

\* _normalize_host: strip, lower, then each of the four prefixes removed once,
\* in the order www. m. mobile. amp.
normalize_host(host) ==
    StripPrefix(
        StripPrefix(
            StripPrefix(
                StripPrefix(Lower(Strip(host)), <<"w","w","w",".">>),
                <<"m",".">>),
            <<"m","o","b","i","l","e",".">>),
        <<"a","m","p",".">>)

\* _host_is: host equals domain or is a subdomain of it
host_is(host, domain) == host = domain \/ EndsWith(host, <<".">> \o domain)

\* d.rstrip(".")
RECURSIVE RStripDot(_)
RStripDot(d) ==
    IF d # <<>> /\ d[Len(d)] = "." THEN RStripDot(SubSeq(d, 1, Len(d) - 1)) ELSE d

\* match_any: an entry ending in '.' matches as a substring of the host;
\* every entry, trailing dots removed, matches as the host or a parent domain
match_any(host, doms) ==
    \E i \in DOMAIN doms :
        \/ EndsWith(doms[i], <<".">>) /\ Contains(host, doms[i])
        \/ host_is(host, RStripDot(doms[i]))

SOCIAL ==
    << <<"t","w","i","t","t","e","r",".","c","o","m">>,
       <<"x",".","c","o","m">>,
       <<"f","a","c","e","b","o","o","k",".","c","o","m">>,
       <<"i","n","s","t","a","g","r","a","m",".","c","o","m">>,
       <<"t","i","k","t","o","k",".","c","o","m">>,
       <<"y","o","u","t","u","b","e",".","c","o","m">>,
       <<"r","e","d","d","i","t",".","c","o","m">>,
       <<"l","i","n","k","e","d","i","n",".","c","o","m">>,
       <<"w","e","i","b","o",".","c","o","m">>,
       <<"z","h","i","h","u",".","c","o","m">>,
       <<"d","o","u","b","a","n",".","c","o","m">>,
       <<"p","i","n","t","e","r","e","s","t",".","c","o","m">>,
       <<"s","n","a","p","c","h","a","t",".","c","o","m">>,
       <<"k","a","k","a","o",".","c","o","m">>,
       <<"v","k",".","c","o","m">>,
       <<"x","i","a","o","h","o","n","g","s","h","u",".","c","o","m">> >>

MESSAGING ==
    << <<"w","h","a","t","s","a","p","p",".","c","o","m">>,
       <<"w","a",".","m","e">>,
       <<"t",".","m","e">>,
       <<"t","e","l","e","g","r","a","m",".","m","e">>,
       <<"t","e","l","e","g","r","a","m",".","o","r","g">>,
       <<"w","e","i","x","i","n",".","q","q",".","c","o","m">>,
       <<"w","e","c","h","a","t",".","c","o","m">>,
       <<"l","i","n","e",".","m","e">>,
       <<"s","i","g","n","a","l",".","o","r","g">>,
       <<"m","e","s","s","e","n","g","e","r",".","c","o","m">>,
       <<"d","i","s","c","o","r","d",".","c","o","m">>,
       <<"d","i","s","c","o","r","d",".","g","g">>,
       <<"s","k","y","p","e",".","c","o","m">> >>

FORUM_COMMUNITY ==
    << <<"d","i","s","c","o","r","d",".","c","o","m">>,
       <<"d","i","s","c","o","r","d",".","g","g">>,
       <<"r","e","d","d","i","t",".","c","o","m">>,
       <<"q","u","o","r","a",".","c","o","m">>,
       <<"c","l","u","b","h","o","u","s","e",".","c","o","m">> >>

QA ==
    << <<"s","t","a","c","k","o","v","e","r","f","l","o","w",".","c","o","m">>,
       <<"s","t","a","c","k","e","x","c","h","a","n","g","e",".","c","o","m">>,
       <<"s","u","p","e","r","u","s","e","r",".","c","o","m">>,
       <<"s","e","r","v","e","r","f","a","u","l","t",".","c","o","m">>,
       <<"a","s","k","u","b","u","n","t","u",".","c","o","m">>,
       <<"q","u","o","r","a",".","c","o","m">> >>

VIDEO ==
    << <<"t","w","i","t","c","h",".","t","v">>,
       <<"v","i","m","e","o",".","c","o","m">>,
       <<"d","a","i","l","y","m","o","t","i","o","n",".","c","o","m">>,
       <<"b","i","l","i","b","i","l","i",".","c","o","m">>,
       <<"y","o","u","k","u",".","c","o","m">>,
       <<"d","o","u","y","i","n",".","c","o","m">>,
       <<"n","e","t","f","l","i","x",".","c","o","m">> >>

MUSIC ==
    << <<"s","p","o","t","i","f","y",".","c","o","m">>,
       <<"s","o","u","n","d","c","l","o","u","d",".","c","o","m">>,
       <<"b","a","n","d","c","a","m","p",".","c","o","m">>,
       <<"m","u","s","i","c",".","a","p","p","l","e",".","c","o","m">>,
       <<"p","o","d","c","a","s","t","s",".","a","p","p","l","e",".","c","o","m">>,
       <<"a","n","c","h","o","r",".","f","m">> >>

BLOG ==
    << <<"m","e","d","i","u","m",".","c","o","m">>,
       <<"s","u","b","s","t","a","c","k",".","c","o","m">>,
       <<"w","o","r","d","p","r","e","s","s",".","c","o","m">>,
       <<"w","o","r","d","p","r","e","s","s",".","o","r","g">>,
       <<"b","l","o","g","s","p","o","t",".","c","o","m">>,
       <<"t","u","m","b","l","r",".","c","o","m">>,
       <<"h","a","s","h","n","o","d","e",".","c","o","m">>,
       <<"d","e","v",".","t","o">>,
       <<"m","i","r","r","o","r",".","x","y","z">>,
       <<"g","h","o","s","t",".","o","r","g">>,
       <<"n","o","t","i","o","n",".","s","i","t","e">>,
       <<"n","o","t","i","o","n",".","s","o">> >>

NEWS ==
    << <<"n","y","t","i","m","e","s",".","c","o","m">>,
       <<"w","a","s","h","i","n","g","t","o","n","p","o","s","t",".","c","o","m">>,
       <<"w","s","j",".","c","o","m">>,
       <<"t","h","e","g","u","a","r","d","i","a","n",".","c","o","m">>,
       <<"a","p","n","e","w","s",".","c","o","m">>,
       <<"n","p","r",".","o","r","g">>,
       <<"b","b","c",".","c","o",".","u","k">>,
       <<"b","b","c",".","c","o","m">>,
       <<"a","l","j","a","z","e","e","r","a",".","c","o","m">>,
       <<"b","l","o","o","m","b","e","r","g",".","c","o","m">>,
       <<"r","e","u","t","e","r","s",".","c","o","m">>,
       <<"f","t",".","c","o","m">>,
       <<"f","o","r","b","e","s",".","c","o","m">>,
       <<"t","i","m","e",".","c","o","m">>,
       <<"l","a","t","i","m","e","s",".","c","o","m">>,
       <<"f","o","x","n","e","w","s",".","c","o","m">>,
       <<"c","n","b","c",".","c","o","m">>,
       <<"n","b","c","n","e","w","s",".","c","o","m">>,
       <<"a","b","c","n","e","w","s",".","g","o",".","c","o","m">>,
       <<"n","e","w","s",".","y","a","h","o","o",".","c","o","m">>,
       <<"t","e","c","h","c","r","u","n","c","h",".","c","o","m">>,
       <<"w","i","r","e","d",".","c","o","m">>,
       <<"t","h","e","v","e","r","g","e",".","c","o","m">>,
       <<"e","n","g","a","d","g","e","t",".","c","o","m">> >>

ENCYC ==
    << <<"w","i","k","i","p","e","d","i","a",".","o","r","g">>,
       <<"w","i","k","i","d","a","t","a",".","o","r","g">>,
       <<"b","a","i","k","e",".","b","a","i","d","u",".","c","o","m">>,
       <<"b","r","i","t","a","n","n","i","c","a",".","c","o","m">> >>

EDU_RESEARCH ==
    << <<"a","r","x","i","v",".","o","r","g">>,
       <<"a","c","m",".","o","r","g">>,
       <<"i","e","e","e",".","o","r","g">>,
       <<"n","a","t","u","r","e",".","c","o","m">>,
       <<"s","c","i","e","n","c","e",".","o","r","g">>,
       <<"s","p","r","i","n","g","e","r",".","c","o","m">>,
       <<"s","c","i","e","n","c","e","d","i","r","e","c","t",".","c","o","m">>,
       <<"s","s","r","n",".","c","o","m">>,
       <<"r","e","s","e","a","r","c","h","g","a","t","e",".","n","e","t">> >>

GOV_NGO ==
    << <<"u","n",".","o","r","g">>,
       <<"w","h","o",".","i","n","t">>,
       <<"o","e","c","d",".","o","r","g">>,
       <<"w","o","r","l","d","b","a","n","k",".","o","r","g">>,
       <<"i","m","f",".","o","r","g">>,
       <<"e","u","r","o","p","a",".","e","u">> >>

FINANCE ==
    << <<"p","a","y","p","a","l",".","c","o","m">>,
       <<"p","a","y","p","a","l",".","m","e">>,
       <<"v","e","n","m","o",".","c","o","m">>,
       <<"c","a","s","h",".","a","p","p">>,
       <<"s","t","r","i","p","e",".","c","o","m">>,
       <<"c","o","i","n","b","a","s","e",".","c","o","m">>,
       <<"b","i","n","a","n","c","e",".","c","o","m">>,
       <<"k","r","a","k","e","n",".","c","o","m">>,
       <<"o","p","e","n","s","e","a",".","i","o">> >>

ECOM ==
    << <<"a","m","a","z","o","n",".">>,
       <<"e","b","a","y",".">>,
       <<"a","l","i","e","x","p","r","e","s","s",".">>,
       <<"t","a","o","b","a","o",".">>,
       <<"t","m","a","l","l",".">>,
       <<"s","h","o","p","i","f","y">>,
       <<"e","t","s","y",".">>,
       <<"j","d",".","c","o","m">>,
       <<"p","i","n","d","u","o","d","u","o",".","c","o","m">>,
       <<"m","e","r","c","a","d","o","l","i","b","r","e",".","c","o","m">>,
       <<"r","a","k","u","t","e","n",".","c","o",".","j","p">>,
       <<"s","h","o","p","e","e",".">> >>

JOB ==
    << <<"l","i","n","k","e","d","i","n",".","c","o","m">>,
       <<"i","n","d","e","e","d",".","c","o","m">>,
       <<"g","l","a","s","s","d","o","o","r",".","c","o","m">>,
       <<"l","e","v","e","r",".","c","o">>,
       <<"g","r","e","e","n","h","o","u","s","e",".","i","o">> >>

IMG_HOST ==
    << <<"i","m","g","u","r",".","c","o","m">>,
       <<"f","l","i","c","k","r",".","c","o","m">>,
       <<"p","i","x","i","v",".","n","e","t">>,
       <<"d","e","v","i","a","n","t","a","r","t",".","c","o","m">>,
       <<"5","0","0","p","x",".","c","o","m">>,
       <<"s","m","u","g","m","u","g",".","c","o","m">> >>

FILE_CLOUD ==
    << <<"d","r","i","v","e",".","g","o","o","g","l","e",".","c","o","m">>,
       <<"d","o","c","s",".","g","o","o","g","l","e",".","c","o","m">>,
       <<"d","r","o","p","b","o","x",".","c","o","m">>,
       <<"b","o","x",".","c","o","m">>,
       <<"m","e","g","a",".","n","z">>,
       <<"o","n","e","d","r","i","v","e",".","l","i","v","e",".","c","o","m">>,
       <<"m","e","d","i","a","f","i","r","e",".","c","o","m">>,
       <<"i","c","l","o","u","d",".","c","o","m">> >>

DEV_CODE ==
    << <<"g","i","t","h","u","b",".","c","o","m">>,
       <<"g","i","s","t",".","g","i","t","h","u","b",".","c","o","m">>,
       <<"g","i","t","l","a","b",".","c","o","m">>,
       <<"b","i","t","b","u","c","k","e","t",".","o","r","g">>,
       <<"p","y","p","i",".","o","r","g">>,
       <<"n","p","m","j","s",".","c","o","m">>,
       <<"c","r","a","t","e","s",".","i","o">>,
       <<"h","u","g","g","i","n","g","f","a","c","e",".","c","o">>,
       <<"k","a","g","g","l","e",".","c","o","m">>,
       <<"c","o","l","a","b",".","r","e","s","e","a","r","c","h",".","g","o","o","g","l","e",".","c","o","m">> >>

MAPS ==
    << <<"m","a","p","s",".","g","o","o","g","l","e",".","c","o","m">>,
       <<"g","o","o",".","g","l","/","m","a","p","s">>,
       <<"o","p","e","n","s","t","r","e","e","t","m","a","p",".","o","r","g">>,
       <<"m","a","p",".","b","a","i","d","u",".","c","o","m">>,
       <<"w","a","z","e",".","c","o","m">> >>

FORMS ==
    << <<"f","o","r","m","s",".","g","l","e">>,
       <<"d","o","c","s",".","g","o","o","g","l","e",".","c","o","m">>,
       <<"t","y","p","e","f","o","r","m",".","c","o","m">>,
       <<"s","u","r","v","e","y","m","o","n","k","e","y",".","c","o","m">>,
       <<"j","i","n","s","h","u","j","u",".","n","e","t">>,
       <<"w","j",".","q","q",".","c","o","m">> >>

APP_STORE ==
    << <<"a","p","p","s",".","a","p","p","l","e",".","c","o","m">>,
       <<"i","t","u","n","e","s",".","a","p","p","l","e",".","c","o","m">>,
       <<"p","l","a","y",".","g","o","o","g","l","e",".","c","o","m">>,
       <<"a","p","p","g","a","l","l","e","r","y",".","h","u","a","w","e","i",".","c","o","m">>,
       <<"a","p","k","p","u","r","e",".","c","o","m">> >>

SPORTS ==
    << <<"e","s","p","n",".","c","o","m">>,
       <<"n","b","a",".","c","o","m">>,
       <<"f","i","f","a",".","c","o","m">>,
       <<"u","e","f","a",".","c","o","m">>,
       <<"m","l","b",".","c","o","m">>,
       <<"n","h","l",".","c","o","m">> >>

LINK_AGG ==
    << <<"l","i","n","k","t","r",".","e","e">>,
       <<"b","i","o",".","l","i","n","k">>,
       <<"a","b","o","u","t",".","m","e">>,
       <<"c","a","r","r","d",".","c","o">>,
       <<"b","e","a","c","o","n","s",".","a","i">>,
       <<"t","a","p",".","b","i","o">>,
       <<"l","n","k",".","b","i","o">>,
       <<"a","l","l","m","y","l","i","n","k","s",".","c","o","m">>,
       <<"s","o","l","o",".","t","o">> >>

SHORT ==
    << <<"t",".","c","o">>,
       <<"b","i","t",".","l","y">>,
       <<"t","i","n","y","u","r","l",".">>,
       <<"g","o","o",".","g","l">>,
       <<"o","w",".","l","y">>,
       <<"b","u","f","f",".","l","y">>,
       <<"b","i","t","l","y",".","c","o","m">>,
       <<"r","e","b","r","a","n","d",".","l","y">> >>

\* the order in which url_domain_category tests the lists
CategoryRules ==
    << <<SHORT, "short_link">>, <<SOCIAL, "social">>, <<MESSAGING, "messaging">>,
       <<FORUM_COMMUNITY, "forum/community">>, <<QA, "qa">>,
       <<VIDEO, "video/streaming">>, <<MUSIC, "music/audio">>,
       <<BLOG, "blog/writing">>, <<NEWS, "news">>, <<ENCYC, "encyclopedia">>,
       <<EDU_RESEARCH, "education/research">>, <<GOV_NGO, "gov/ngo">>,
       <<FINANCE, "finance">>, <<ECOM, "ecommerce">>, <<JOB, "job/career">>,
       <<IMG_HOST, "image/hosting">>, <<FILE_CLOUD, "file/cloud">>,
       <<DEV_CODE, "dev/code">>, <<MAPS, "maps/nav">>, <<FORMS, "forms/surveys">>,
       <<APP_STORE, "app_store">>, <<SPORTS, "sports">>,
       <<LINK_AGG, "link_aggregator">> >>

GoogleCom == <<"g","o","o","g","l","e",".","c","o","m">>

\* the category of the last list that matches
LastRule(hits, rules) ==
    IF hits = {} THEN "personal/other"
    ELSE rules[CHOOSE i \in hits : \A j \in hits : j <= i][2]

\* the category of the first list that matches, "personal/other" without one
FirstRule(hits, rules) ==
    IF hits = {} THEN "personal/other" ELSE rules[Min(hits)][2]

ByLists(host, rules) ==
    FirstRule({i \in DOMAIN rules : match_any(host, rules[i][1])}, rules)

\* the path rules of google.com
GooglePath(host, path) ==
    IF StartsWith(path, <<"/","m","a","p","s">>) THEN "maps/nav"
    ELSE IF \/ StartsWith(path, <<"/","f","o","r","m","s">>)
            \/ Contains(path, <<"/","f","o","r","m","s","/">>)
    THEN "forms/surveys"
    ELSE IF \/ StartsWith(path, <<"/","d","r","i","v","e">>)
            \/ StartsWith(path, <<"/","f","i","l","e">>)
            \/ StartsWith(path, <<"/","d","o","c">>)
            \/ host_is(host, <<"d","o","c","s",".">> \o GoogleCom)
    THEN "file/cloud"
    ELSE "none"

\* the category by the lists unless a google.com path rule gave one
PathOrLists(host, byPath) ==
    IF byPath # "none" THEN byPath ELSE ByLists(host, CategoryRules)

\* the rules of url_domain_category on a normalized host and a lower-cased path
ClassifyHost(host, path) ==
    IF EndsWith(host, <<".","g","o","v">>) \/ host_is(host, <<"g","o","v",".","u","k">>)
    THEN "gov/ngo"
    ELSE IF EndsWith(host, <<".","e","d","u">>) THEN "education/research"
    ELSE PathOrLists(host,
                     IF host_is(host, GoogleCom) THEN GooglePath(host, path)
                     ELSE "none")

Cat(c) == [t |-> "cat", v |-> c]

AbsentWords ==
    {<<>>, <<"n","a","n">>, <<"n","o","n","e">>, <<"n","u","l","l">>}

CategoryOfHost(host, path) ==
    IF host = <<>> THEN Cat("unavailable") ELSE Cat(ClassifyHost(host, path))

CategoryOfParsed(parsed) ==
    IF IsRaised(parsed) THEN Raised
    ELSE CategoryOfHost(normalize_host(parsed.netloc), Lower(parsed.path))

\* the URL gets http:// in front unless it holds "://"
CategoryOfText(raw) ==
    IF raw \in AbsentWords THEN Cat("unavailable")
    ELSE CategoryOfParsed(urlparse(S(IF Contains(raw, <<":","/","/">>)
                                     THEN raw ELSE HttpPrefix \o raw)))

\* url_domain_category: "unavailable" for a false or placeholder value and for
\* an empty host
url_domain_category(url_str) ==
    IF ~Truthy(url_str) THEN Cat("unavailable")
    ELSE CategoryOfText(Strip(PyStr(url_str)))

\* every tally kept, short_link included
UseEveryCount(all) == all

\* use_counts: the tallies without short_link, unless nothing else was counted
UseCounts(all) ==
    IF all \ {"short_link"} # {} THEN all \ {"short_link"} ELSE all

priority ==
    <<"social", "news", "encyclopedia", "blog/writing", "ecommerce",
      "personal/other", "short_link", "unavailable">>

\* every category at the same place of the priority list
PriorityIndexFlat(c) == 0

\* priority.index(c) if c in priority else len(priority), from 0
PriorityIndex(c) ==
    IF c \in Range(priority)
    THEN (CHOOSE i \in DOMAIN priority : priority[i] = c) - 1
    ELSE Len(priority)

\* host = urlparse(u).netloc, '' when urlparse raises
HostOf(parsed) == IF IsRaised(parsed) THEN <<>> ELSE parsed.netloc

ChainCategory(cat, more) ==
    IF IsRaised(cat) \/ IsRaised(more) THEN Raised ELSE L(<<cat.v>> \o more.v)

\* the category of every URL, in order: url_domain_category of its host
RECURSIVE CategoriesOf(_)
CategoriesOf(urls) ==
    IF urls = <<>> THEN L(<<>>)
    ELSE ChainCategory(url_domain_category(S(HostOf(urlparse(urls[1])))),
                       CategoriesOf(Tail(urls)))

\* sorted(use_counts.items(), key = (-count, priority index)): a stable sort
\* of the categories, which the dict holds in first-encounter order
RankCategories(cats) ==
    LET Count(c) == Cardinality({i \in DOMAIN cats : cats[i] = c})
        First(c) == Min({i \in DOMAIN cats : cats[i] = c})
        use == UseCounts(Range(cats))
        Before(c, d) ==
            \/ Count(c) > Count(d)
            \/ Count(c) = Count(d) /\ PriorityIndex(c) < PriorityIndex(d)
            \/ /\ Count(c) = Count(d) /\ PriorityIndex(c) = PriorityIndex(d)
               /\ First(c) < First(d)
        Rank(c) == Cardinality({d \in use : Before(d, c)}) + 1
    IN  [k \in 1..Cardinality(use) |-> CHOOSE c \in use : Rank(c) = k]

Ranked(cats) == IF IsRaised(cats) THEN Raised ELSE L(RankCategories(cats.v))

CategoriesOfUrls(urls) ==
    IF IsRaised(urls) THEN Raised
    ELSE IF urls.v = <<>> THEN L(<<"unavailable">>)
    ELSE Ranked(CategoriesOf(urls.v))

\* url_domain_categories: ['unavailable'] without URLs, else the categories
\* by falling count
url_domain_categories(url_entity) ==
    CategoriesOfUrls(iter_urls_from_entity(url_entity))

(***************************************************************************)
(* The profile feature extractor.                                          *)
(***************************************************************************)
CountIf(s, Test(_)) == Cardinality({i \in DOMAIN s : Test(s[i])})

IsSpecial(c) == ~IsAlnum(c) /\ ~IsSpace(c)
IsUnderscore(c) == c = "_"

Stats(length, first, second) == [length |-> length, first |-> first, second |-> second]

\* (length, digits / length, marked / length) of a cleaned name,
\* (0, 0.0, 0.0) when it is empty
StatsOf(txt, Marked(_)) ==
    IF txt = <<>> THEN Stats(0, Zero, Zero)
    ELSE Stats(Len(txt),
               Ratio(CountIf(txt, IsDigit), Len(txt)),
               Ratio(CountIf(txt, Marked), Len(txt)))

\* name_stats: length, digit ratio and special-character ratio
name_stats(s) == StatsOf(clean_text(Or(s, S(<<>>))), IsSpecial)

\* screen_name_stats: length, digit ratio and underscore ratio
screen_name_stats(s) == StatsOf(clean_text(Or(s, S(<<>>))), IsUnderscore)

\* inter / union of two character sets
Jaccard(sa, sb) == Ratio(Cardinality(sa \cap sb), Cardinality(sa \cup sb))

\* str_similarity: 0.0 when either argument is false, else the Jaccard index
\* of the character sets of a.lower() and b.lower(); a.lower() raises
\* AttributeError on a value that is no str
str_similarity(a, b) ==
    IF ~Truthy(a) \/ ~Truthy(b) THEN Zero
    ELSE IF a.t # "str" \/ b.t # "str" THEN Raised
    ELSE Jaccard(Range(Lower(a.v)), Range(Lower(b.v)))

\* "zh" on a CJK character of the description, else "en"
LangOfText(description_text) ==
    IF \E i \in DOMAIN description_text : IsCJK(description_text[i])
    THEN <<"z", "h">>
    ELSE <<"e", "n">>

\* the stripped profile language, lower-cased, unless it is blank
LangOr(stripped, description_text) ==
    IF stripped # <<>> THEN Lower(stripped) ELSE LangOfText(description_text)

\* lang_hint_from_fields: the profile language, stripped and lower-cased, when
\* it is true and not blank; else "zh" on a CJK character; else "en"
lang_hint_from_fields(profile_lang_field, description_text) ==
    IF Truthy(profile_lang_field)
    THEN LangOr(Strip(PyStr(profile_lang_field)), description_text)
    ELSE LangOfText(description_text)

\* utc_offset in (None, '', 'nan', 'NaN')
OffsetAbsent(utc_offset) ==
    utc_offset \in {None, S(<<>>), S(<<"n","a","n">>), S(<<"N","a","N">>)}

IndiaOffsets == {19800, 20700}

\* int(utc_offset) in a try whose except gives None
OffsetOf(utc_offset) ==
    IF OffsetAbsent(utc_offset) THEN None ELSE PyInt(utc_offset)

\* l == "en" and ("delhi" in z or off in (19800, 20700)); .lower() raises
\* AttributeError on a true value that is no str
Mismatch(l, z, off) ==
    IF l.t # "str" \/ z.t # "str" THEN Raised
    ELSE B(/\ Strip(Lower(l.v)) = <<"e", "n">>
           /\ \/ Contains(Lower(z.v), <<"d","e","l","h","i">>)
              \/ off.t = "int" /\ off.v \in IndiaOffsets)

\* compute_lang_timezone_mismatch on (lang or ''), (time_zone or '') and the
\* offset
compute_lang_timezone_mismatch(lang, time_zone, utc_offset) ==
    Mismatch(Or(lang, S(<<>>)), Or(time_zone, S(<<>>)), OffsetOf(utc_offset))

\* bool(x and str(x).strip() != '')
Present(x) == Truthy(x) /\ Strip(PyStr(x)) # <<>>

HasLen(x) == x.t \in {"str", "list", "dict"}

\* the pair with the flag of lang_hint left out of the missing map
PairWithoutFlag(features, missing) ==
    [t |-> "pair", features |-> features,
     missing |-> [k \in DOMAIN missing \ {"lang_hint_missing"} |-> missing[k]]]

Pair(features, missing) ==
    [t |-> "pair", features |-> features, missing |-> missing]

\* profile_features_missing: one flag per feature, each computed from the
\* local the features dict stores under that name
profile_features_missing(f) ==
    [followers_count_missing |-> f.followers_count = 0,
     friends_count_missing |-> f.friends_count = 0,
     statuses_count_missing |-> f.statuses_count = 0,
     favourites_count_missing |-> f.favourites_count = 0,
     listed_count_missing |-> f.listed_count = 0,
     ff_ratio_missing |-> (f.followers_count = 0 \/ f.friends_count = 0),
     verified_missing |-> f.verified = None,
     protected_missing |-> f.protected = None,
     default_profile_image_missing |-> f.default_profile_image = None,
     default_profile_missing |-> f.default_profile = None,
     geo_enabled_missing |-> f.geo_enabled = None,
     desc_length_missing |-> f.desc_length = 0,
     emoji_count_missing |-> f.emoji_count = 0,
     has_url_in_desc_missing |-> f.has_url_in_desc = FALSE,
     has_mention_in_desc_missing |-> f.has_mention_in_desc = FALSE,
     has_hashtag_in_desc_missing |-> f.has_hashtag_in_desc = FALSE,
     has_email_in_desc_missing |-> f.has_email_in_desc = FALSE,
     has_phone_in_desc_missing |-> f.has_phone_in_desc = FALSE,
     has_promo_keyword_in_desc_missing |-> f.has_promo_keyword_in_desc = FALSE,
     url_category_desc_missing |-> Len(f.url_category_desc) = 0,
     has_url_in_bio_missing |-> f.has_url_in_bio = FALSE,
     url_category_bio_missing |-> Len(f.url_category_bio) = 0,
     lang_hint_missing |-> f.lang_hint = None,
     created_at_missing |-> f.created_at = None,
     name_length_missing |-> f.name_length = 0,
     name_digit_ratio_missing |-> f.name_digit_ratio = Zero,
     name_special_char_ratio_missing |-> f.name_special_char_ratio = Zero,
     screen_name_length_missing |-> f.screen_name_length = 0,
     screen_name_digit_ratio_missing |-> f.screen_name_digit_ratio = Zero,
     screen_name_underscore_ratio_missing |-> f.screen_name_underscore_ratio = Zero,
     name_screen_name_similarity_missing |->
         (f.screen_name_length = 0 \/ f.name_length = 0),
     location_present_missing |-> f.location_present = FALSE,
     profile_banner_url_present_missing |-> f.profile_banner_url_present = FALSE,
     profile_use_background_image_missing |->
         f.profile_use_background_image = FALSE,
     profile_background_tile_missing |-> f.profile_background_tile = FALSE,
     time_zone_present_missing |-> f.time_zone_present = FALSE,
     utc_offset_present_missing |-> f.utc_offset_present = FALSE,
     lang_timezone_mismatch_missing |-> f.lang_timezone_mismatch = TRUE,
     location_generic_flag_missing |-> f.location_generic_flag = FALSE]

\* user.get("entities", {}).get(field, {}).get("urls", []): AttributeError
\* when 'entities' or entities[field] is no dict
UrlEntity(user, field) ==
    GetOr(GetOr(GetOr(user, "entities", EmptyDict), field, EmptyDict),
          "urls", L(<<>>))

\* url_domain_categories(url_entity) if url_entity else []
CategoriesIfAny(url_entity) ==
    IF IsRaised(url_entity) THEN Raised
    ELSE IF Truthy(url_entity) THEN url_domain_categories(url_entity)
    ELSE L(<<>>)

\* the categories of the bio URLs, after len(bio_urls) has been taken
BioCategories(bio_urls) ==
    IF ~HasLen(bio_urls) THEN Raised ELSE CategoriesIfAny(bio_urls)

\* the locals of extract_profile_features that are read from the raw record
Locals(user) ==
    [followers_count |-> safe_int(Get(user, "followers_count")),
     friends_count |-> safe_int(Get(user, "friends_count")),
     statuses_count |-> safe_int(Get(user, "statuses_count")),
     favourites_count |-> safe_int(Get(user, "favourites_count")),
     listed_count |-> safe_int(Get(user, "listed_count")),
     verified |-> parse_bool(Get(user, "verified")),
     protected |-> parse_bool(Get(user, "protected")),
     default_profile_image |-> parse_bool(Get(user, "default_profile_image")),
     default_profile |-> parse_bool(Get(user, "default_profile")),
     geo_enabled |-> parse_bool(Get(user, "geo_enabled")),
     description |-> clean_text(Get(user, "description")),
     url_entity_desc |-> UrlEntity(user, "description"),
     bio_urls |-> UrlEntity(user, "url"),
     created_at |-> Get(user, "created_at"),
     name |-> Get(user, "name"),
     screen_name |-> Or(Get(user, "screen_name"), S(<<>>)),
     lang |-> Get(user, "lang"),
     location |-> Get(user, "location"),
     location_present |-> Present(Get(user, "location")),
     profile_banner_url_present |-> Present(Get(user, "profile_banner_url")),
     profile_use_background_image |->
         Present(Get(user, "profile_use_background_image")),
     profile_background_tile |-> Present(Get(user, "profile_background_tile")),
     time_zone_present |-> Present(Get(user, "time_zone")),
     utc_offset_present |-> ~OffsetAbsent(Get(user, "utc_offset")),
     lang_timezone_mismatch |->
         compute_lang_timezone_mismatch(
             Get(user, "lang"), Get(user, "time_zone"), Get(user, "utc_offset"))]

\* the locals computed from the locals a; every description feature is
\* guarded by len(description) > 0
Derived(a) ==
    [ff_ratio |-> safe_div(I(a.followers_count), I(a.friends_count)),
     desc_length |-> IF Len(a.description) > 0 THEN Len(a.description) ELSE 0,
     emoji_count |->
         IF Len(a.description) > 0 THEN count_emoji(a.description) ELSE 0,
     has_mention_in_desc |->
         IF Len(a.description) > 0 THEN HasSigilWord(a.description, "@") ELSE FALSE,
     has_url_in_desc |->
         IF Len(a.description) > 0
         THEN ~IsRaised(a.url_entity_desc) /\ Truthy(a.url_entity_desc)
         ELSE FALSE,
     has_hashtag_in_desc |->
         IF Len(a.description) > 0 THEN HasSigilWord(a.description, "#") ELSE FALSE,
     has_email_in_desc |->
         IF Len(a.description) > 0 THEN EmailSearch(a.description) ELSE FALSE,
     has_phone_in_desc |->
         IF Len(a.description) > 0 THEN PhoneSearch(a.description) ELSE FALSE,
     has_promo_keyword_in_desc |->
         IF Len(a.description) > 0
         THEN \E k \in promo_keywords : Contains(Lower(a.description), k)
         ELSE FALSE,
     url_category_desc |-> CategoriesIfAny(a.url_entity_desc),
     has_url_in_bio |-> ~IsRaised(a.bio_urls) /\ Truthy(a.bio_urls),
     url_category_bio |-> BioCategories(a.bio_urls),
     name_st |-> name_stats(a.name),
     sn_st |-> screen_name_stats(a.screen_name),
     name_sn_similarity |->
         IF Truthy(a.name) /\ Truthy(a.screen_name)
         THEN str_similarity(a.name, a.screen_name) ELSE Zero,
     lang_hint |-> lang_hint_from_fields(a.lang, a.description),
     location_generic_flag |->
         IF a.location_present
         THEN Lower(Strip(PyStr(Or(a.location, S(<<>>))))) \in GENERIC_LOCATIONS
         ELSE FALSE]

\* a statement of extract_profile_features raises: the lookup of a URL
\* entity, len(bio_urls), url_domain_categories, str_similarity or
\* compute_lang_timezone_mismatch
Raises(a, b) ==
    \/ IsRaised(b.url_category_desc)
    \/ IsRaised(b.url_category_bio)
    \/ IsRaised(b.name_sn_similarity)
    \/ IsRaised(a.lang_timezone_mismatch)

\* the profile_features dict
Features(a, b) ==
    [followers_count |-> a.followers_count,
     friends_count |-> a.friends_count,
     statuses_count |-> a.statuses_count,
     favourites_count |-> a.favourites_count,
     listed_count |-> a.listed_count,
     verified |-> a.verified,
     protected |-> a.protected,
     default_profile_image |-> a.default_profile_image,
     default_profile |-> a.default_profile,
     geo_enabled |-> a.geo_enabled,
     lang_hint |-> S(b.lang_hint),
     created_at |-> a.created_at,
     location_present |-> a.location_present,
     profile_banner_url_present |-> a.profile_banner_url_present,
     profile_use_background_image |-> a.profile_use_background_image,
     profile_background_tile |-> a.profile_background_tile,
     time_zone_present |-> a.time_zone_present,
     utc_offset_present |-> a.utc_offset_present,
     ff_ratio |-> b.ff_ratio,
     desc_length |-> b.desc_length,
     emoji_count |-> b.emoji_count,
     has_url_in_desc |-> b.has_url_in_desc,
     has_mention_in_desc |-> b.has_mention_in_desc,
     has_hashtag_in_desc |-> b.has_hashtag_in_desc,
     has_email_in_desc |-> b.has_email_in_desc,
     has_phone_in_desc |-> b.has_phone_in_desc,
     has_promo_keyword_in_desc |-> b.has_promo_keyword_in_desc,
     url_category_desc |-> b.url_category_desc.v,
     has_url_in_bio |-> b.has_url_in_bio,
     url_category_bio |-> b.url_category_bio.v,
     name_length |-> b.name_st.length,
     name_digit_ratio |-> b.name_st.first,
     name_special_char_ratio |-> b.name_st.second,
     screen_name_length |-> b.sn_st.length,
     screen_name_digit_ratio |-> b.sn_st.first,
     screen_name_underscore_ratio |-> b.sn_st.second,
     name_screen_name_similarity |-> b.name_sn_similarity,
     lang_timezone_mismatch |-> a.lang_timezone_mismatch.v,
     location_generic_flag |-> b.location_generic_flag]

\* the pair whose flags are all False
PairedNeverMissing(profile_features) ==
    Pair(profile_features,
         [k \in {f \o "_missing" : f \in DOMAIN profile_features} |-> FALSE])

\* return profile_features, profile_features_missing
Paired(profile_features) ==
    Pair(profile_features, profile_features_missing(profile_features))

Extracted(a, b) == IF Raises(a, b) THEN Raised ELSE Paired(Features(a, b))

FromLocals(a) == Extracted(a, Derived(a))

\* extract_profile_features(user): the statements in source order; the first
\* one that raises ends the call with that exception
extract_profile_features(user) == FromLocals(Locals(user))

(***************************************************************************)
(* Inputs of the coercions.                                                *)
(***************************************************************************)
Pending == [t |-> "pending"]

\* the values a raw JSON or CSV field holds besides text
ScalarValues ==
    {None, B(TRUE), B(FALSE), I(0), I(1), I(12), I(0 - 5),
     Fl(127, 10), Fl(0 - 17, 10), Fl(10, 10), Inf(1), Inf(0 - 1), NaN,
     L(<<>>), L(<<I(1)>>)}

NumAlphabet == {"1", "7", "-", ".", " ", "a", "n"}
NumTexts ==
    {<<"1","2",".","7">>, <<" ","1","2",".","7"," ">>, <<"-","1",".","7">>,
     <<"a","b","c">>, <<"i","n","f">>, <<"-","I","n","f">>, <<"N","a","N">>,
     <<"+","3">>, <<"1",".","2","5">>, <<"\t","5","\n">>, <<"-","0",".","9">>,
     <<"1","9","8","0","0">>, <<"1"," ","2">>, <<"-","-","1">>}
SafeIntInputs ==
    ScalarValues \cup {S(s) : s \in StringsUpTo(NumAlphabet, MaxLen) \cup NumTexts}

SafeDivInputs ==
    {None, I(0), I(10), I(5), I(0 - 5), B(TRUE), Fl(25, 10), Inf(1), NaN,
     L(<<>>), S(<<>>), S(<<"a","b","c">>), S(<<"2",".","5">>), S(<<"-","4">>),
     S(<<"n","a","n">>)}

BoolAlphabet == {"1", "0", "Y", "n", "t", "F", " ", "x"}
BoolTexts ==
    {<<"t","r","u","e">>, <<"T","R","U","E">>, <<" ","T","r","u","e"," ">>,
     <<"f","a","l","s","e">>, <<"F","a","l","s","e">>, <<"y","e","s">>,
     <<"Y","E","S","\n">>, <<"n","o">>, <<"N","O">>, <<"m","a","y","b","e">>,
     <<"t","r","u","e","1">>, <<"1",".","0">>, <<"n","o","n","e">>}
ParseBoolInputs ==
    ScalarValues \cup {S(s) : s \in StringsUpTo(BoolAlphabet, MaxLen) \cup BoolTexts}

NoBatch ==
    /\ tool = "none"
    /\ records = <<>>
    /\ idx = 0
    /\ output_dict = <<>>
    /\ status = "idle"
    /\ users = <<>>
    /\ count_rows = 0

\* a key the raw record does not hold
Absent == [t |-> "absent"]

\* the dict of the keys of f whose value is not Absent
MkDict(f) == D([k \in {k \in DOMAIN f : f[k] # Absent} |-> f[k]])

(***************************************************************************)
(* Raw user records: families of records, each varying the fields one      *)
(* group of features reads and leaving the other keys out.                 *)
(***************************************************************************)
CountRaw ==
    {Absent,
     None,
     I(0),
     I(3),
     I(0 - 5),
     Fl(127, 10),
     S(<<"1","0">>),
     S(<<"0">>),
     S(<<"-","5">>),
     S(<<"1","2",".","7">>),
     S(<<"a","b","c">>),
     S(<<>>)}
CountUsers ==
    {MkDict([followers_count |-> a, friends_count |-> b]) : a, b \in CountRaw}
    \cup {MkDict(k :> a) :
            k \in {"statuses_count", "favourites_count", "listed_count"},
            a \in CountRaw}

BoolFields ==
    <<"verified", "protected", "default_profile_image", "default_profile",
      "geo_enabled">>
BoolRaw ==
    {Absent,
     None,
     B(TRUE),
     B(FALSE),
     I(1),
     I(0),
     Fl(10, 10),
     S(<<"1">>),
     S(<<"0">>),
     S(<<"Y">>),
     S(<<" ","n","o"," ">>),
     S(<<"m","a","y","b","e">>),
     S(<<>>),
     S(<<"T","R","U","E">>),
     S(<<"f","a","l","s","e">>)}
BoolUsers ==
    {MkDict(k :> v) : k \in Range(BoolFields), v \in BoolRaw}
    \cup {MkDict([k \in Range(BoolFields) |-> v]) : v \in BoolRaw}

DescAlphabet == {" ", "\t", "a", "@", "#"}
DescTexts ==
    {S(s) : s \in StringsUpTo(DescAlphabet, MaxLen)}
    \cup {S(<<"C","o","n","t","a","c","t"," ","m","e","!"," ","b","i","z","@","x",".","c","o","m"," ","#","a","d">>),
          S(<<"D","M"," ","m","e">>),
          S(<<"c","a","l","l"," ","5","5","5","-","1","2","3","4">>),
          S(<<"U+1F600","U+1F600"," ","U+2764">>),
          S(<<"U+4E2D">>),
          S(<<"U+5408","U+4F5C">>),
          S(<<"c","a","f","U+00E9"," ","@","c","a","f","U+00E9">>),
          S(<<"\\x7f">>),
          I(5),
          L(<<>>)}
DescSmall ==
    {Absent,
     None,
     S(<<>>),
     S(<<" ","\t">>),
     S(<<"h","i">>),
     S(<<"a","@","b",".","c","c"," ","#","x">>)}
UrlsRaw ==
    {Absent,
     None,
     L(<<>>),
     I(5),
     S(<<"g","i","t","h","u","b",".","c","o","m">>),
     L(<<D("expanded_url" :> S(<<"h","t","t","p","s",":","/","/","t","w","i","t","t","e","r",".","c","o","m","/","x">>))>>),
     L(<<D("url" :> S(<<"b","i","t",".","l","y","/","x">>))>>),
     L(<<D("expanded_url" :> S(<<"h","t","t","p","s",":","/","/","g","i","t","h","u","b",".","c","o","m","/","a">>)), D("url" :> S(<<"h","t","t","p",":","/","/","b","i","t",".","l","y","/","x">>))>>),
     L(<<D("display_url" :> S(<<"e","x","a","m","p","l","e",".","o","r","g">>)), S(<<"h","t","t","p","s",":","/","/","t",".","c","o","/","a">>)>>),
     D("url" :> S(<<"n","y","t","i","m","e","s",".","c","o","m">>)),
     D("url" :> I(5)),
     L(<<D("url" :> S(<<"h","t","t","p",":","/","/","[",":",":","1">>))>>),
     L(<<D("url" :> I(5))>>)}
\* the values of 'entities' around the URL entity of one field
EntitiesRaw(field) ==
    {Absent, None, S(<<"x">>), D(<<>>), D(field :> None), D(field :> D(<<>>))}
    \cup {D(field :> MkDict([urls |-> u])) : u \in UrlsRaw}
TwitterUrls ==
    L(<<D("expanded_url" :> S(<<"h","t","t","p","s",":","/","/","t","w","i","t","t","e","r",".","c","o","m","/","x">>))>>)
DescUsers ==
    {MkDict([description |-> d, entities |-> e]) :
        d \in DescSmall, e \in EntitiesRaw("description")}
    \cup {MkDict([description |-> d, entities |-> e]) :
            d \in DescTexts,
            e \in {Absent, D("description" :> D("urls" :> TwitterUrls))}}
BioUsers == {MkDict([entities |-> e]) : e \in EntitiesRaw("url")}

NameRaw ==
    {Absent,
     None,
     I(5),
     I(0),
     L(<<>>),
     S(<<>>),
     S(<<"J","o","h","n">>),
     S(<<"j","o","h","n">>),
     S(<<"J","0","h","n"," ","D","!">>),
     S(<<"a","_","1">>),
     S(<<" ">>)}
NameUsers == {MkDict([name |-> a, screen_name |-> b]) : a, b \in NameRaw}

LangRaw ==
    {Absent,
     None,
     I(5),
     S(<<"e","n">>),
     S(<<" ","E","N"," ">>),
     S(<<"f","r">>),
     S(<<>>)}
TimeZoneRaw ==
    {Absent,
     I(5),
     S(<<"N","e","w"," ","D","e","l","h","i">>),
     S(<<"U","T","C">>)}
OffsetRaw ==
    {Absent,
     None,
     I(19800),
     I(20700),
     I(0),
     B(TRUE),
     Fl(198005, 10),
     S(<<"1","9","8","0","0">>),
     S(<<"n","a","n">>),
     S(<<"1","9","8","0","0",".","0">>)}
LangUsers ==
    {MkDict([lang |-> l, time_zone |-> z, utc_offset |-> o, description |-> d]) :
        l \in LangRaw, z \in TimeZoneRaw, o \in OffsetRaw,
        d \in {Absent, S(<<"U+4E2D">>)}}

LocationRaw ==
    {Absent,
     None,
     I(0),
     I(5),
     S(<<"E","a","r","t","h">>),
     S(<<" ","w","o","r","l","d"," ">>),
     S(<<"P","a","r","i","s">>),
     S(<<" ">>)}
LocationUsers ==
    {MkDict([location |-> l, profile_banner_url |-> b,
             profile_use_background_image |-> g, profile_background_tile |-> g,
             created_at |-> c]) :
        l \in LocationRaw,
        b \in {Absent, S(<<"h","t","t","p",":","/","/","x">>), S(<<" ">>)},
        g \in {Absent, B(TRUE), B(FALSE), S(<<"F","a","l","s","e">>)},
        c \in {Absent, None, S(<<"M","o","n">>)}}

UserRecords ==
    CountUsers \cup BoolUsers \cup DescUsers \cup BioUsers \cup NameUsers
    \cup LangUsers \cup LocationUsers

(***************************************************************************)
(* One call of a function: Init draws the function and its arguments.      *)
(***************************************************************************)
Init ==
    /\ pc = "call"
    /\ ret = Pending
    /\ \/ fn = "safe_int" /\ args \in {<<x>> : x \in SafeIntInputs}
       \/ fn = "safe_div" /\ args \in SafeDivInputs \X SafeDivInputs
       \/ fn = "parse_bool" /\ args \in {<<x>> : x \in ParseBoolInputs}
       \/ fn = "extract_profile_features" /\ args \in {<<u>> : u \in UserRecords}
    /\ NoBatch

Return(f, value) ==
    /\ pc = "call"
    /\ fn = f
    /\ ret' = value
    /\ pc' = "done"
    /\ UNCHANGED <<fn, args, tool, records, idx, output_dict, status, users,
                   count_rows>>

CallSafeInt == Return("safe_int", I(safe_int(args[1])))
CallSafeDiv == Return("safe_div", safe_div(args[1], args[2]))
CallParseBool == Return("parse_bool", parse_bool(args[1]))
CallExtract == Return("extract_profile_features", extract_profile_features(args[1]))

Next == CallSafeInt \/ CallSafeDiv \/ CallParseBool \/ CallExtract

Spec == Init /\ [][Next]_vars

(***************************************************************************)
(* One call of a URL function: _normalize_host, url_domain_category or     *)
(* url_domain_categories.                                                  *)
(***************************************************************************)
HostPrefixes ==
    {<<>>, <<"w","w","w",".">>, <<"m",".">>, <<"m","o","b","i","l","e",".">>, <<"a","m","p",".">>}

\* hosts handed to _normalize_host: every two stacked prefixes and more
HostInputs ==
    {None}
    \cup {S(p \o q \o <<"x",".","c","o","m">>) : p, q \in HostPrefixes}
    \cup {S(<<>>),
          S(<<" ","W","W","W",".","X",".","c","o","m"," ">>),
          S(<<"x",".","c","o","m">>),
          S(<<"w","w","w","w",".","x",".","c","o","m">>),
          S(<<"w","w","w",".">>),
          S(<<"m",".">>),
          S(<<"M",".","T","w","i","t","t","e","r",".","C","O","M">>),
          S(<<"m","o","b","i","l","e",".","t","w","i","t","t","e","r",".","c","o","m">>),
          S(<<"a","m","p",".","c","n","n",".","c","o","m">>),
          S(<<"a","m","p",".","m","o","b","i","l","e",".","m",".","w","w","w",".","x",".","c","o","m">>),
          S(<<"\t","m",".","x",".","c","o","m","\n">>)}

\* values handed to url_domain_category
UrlTextInputs ==
    {None,
I(5),
I(0),
L(<<>>)}
    \cup {S(<<>>),
          S(<<"n","a","n">>),
          S(<<"N","a","N">>),
          S(<<" ","n","u","l","l"," ">>),
          S(<<"N","o","n","e">>),
          S(<<"n","o","n","e">>),
          S(<<"N","U","L","L">>),
          S(<<"n","y","c",".","g","o","v">>),
          S(<<"h","t","t","p","s",":","/","/","w","w","w",".","g","o","v",".","u","k","/","x">>),
          S(<<"m","i","t",".","e","d","u">>),
          S(<<"g","i","t","h","u","b",".","c","o","m",".","g","o","v">>),
          S(<<"H","T","T","P","S",":","/","/","M",".","T","w","i","t","t","e","r",".","c","o","m","/","x">>),
          S(<<"h","t","t","p","s",":","/","/","w","w","w",".","g","o","o","g","l","e",".","c","o","m","/","m","a","p","s","/","p","l","a","c","e">>),
          S(<<"g","o","o","g","l","e",".","c","o","m","/","f","o","r","m","s","/","x">>),
          S(<<"h","t","t","p","s",":","/","/","g","o","o","g","l","e",".","c","o","m","/","a","/","f","o","r","m","s","/","b">>),
          S(<<"h","t","t","p","s",":","/","/","w","w","w",".","g","o","o","g","l","e",".","c","o","m","/","d","r","i","v","e">>),
          S(<<"h","t","t","p","s",":","/","/","g","o","o","g","l","e",".","c","o","m","/","f","i","l","e","/","1">>),
          S(<<"h","t","t","p","s",":","/","/","g","o","o","g","l","e",".","c","o","m","/","d","o","c">>),
          S(<<"h","t","t","p","s",":","/","/","d","o","c","s",".","g","o","o","g","l","e",".","c","o","m","/","x">>),
          S(<<"h","t","t","p","s",":","/","/","d","o","c","s",".","g","o","o","g","l","e",".","c","o","m","/","f","o","r","m","s","/","d","/","1">>),
          S(<<"h","t","t","p","s",":","/","/","g","o","o","g","l","e",".","c","o","m","/","s","e","a","r","c","h">>),
          S(<<"h","t","t","p","s",":","/","/","g","o","o","g","l","e",".","c","o","m","/","M","A","P","S">>),
          S(<<"m","a","p","s",".","g","o","o","g","l","e",".","c","o","m">>),
          S(<<"p","l","a","y",".","g","o","o","g","l","e",".","c","o","m","/","s","t","o","r","e">>),
          S(<<"b","i","t",".","l","y","/","x">>),
          S(<<"t","i","n","y","u","r","l",".","c","o","m","/","y">>),
          S(<<"t","w","i","t","t","e","r",".","c","o","m">>),
          S(<<"t",".","m","e","/","x">>),
          S(<<"d","i","s","c","o","r","d",".","c","o","m">>),
          S(<<"r","e","d","d","i","t",".","c","o","m","/","r","/","a">>),
          S(<<"q","u","o","r","a",".","c","o","m">>),
          S(<<"s","t","a","c","k","o","v","e","r","f","l","o","w",".","c","o","m">>),
          S(<<"t","w","i","t","c","h",".","t","v">>),
          S(<<"o","p","e","n",".","s","p","o","t","i","f","y",".","c","o","m">>),
          S(<<"m","e","d","i","u","m",".","c","o","m">>),
          S(<<"b","b","c",".","c","o",".","u","k">>),
          S(<<"e","n",".","w","i","k","i","p","e","d","i","a",".","o","r","g">>),
          S(<<"a","r","x","i","v",".","o","r","g">>),
          S(<<"u","n",".","o","r","g">>),
          S(<<"p","a","y","p","a","l",".","m","e">>),
          S(<<"w","w","w",".","a","m","a","z","o","n",".","c","o",".","u","k">>),
          S(<<"m","y","s","h","o","p","i","f","y",".","c","o","m">>),
          S(<<"l","i","n","k","e","d","i","n",".","c","o","m","/","i","n","/","x">>),
          S(<<"i","n","d","e","e","d",".","c","o","m">>),
          S(<<"i","m","g","u","r",".","c","o","m">>),
          S(<<"d","r","o","p","b","o","x",".","c","o","m">>),
          S(<<"g","i","t","h","u","b",".","c","o","m">>),
          S(<<"o","p","e","n","s","t","r","e","e","t","m","a","p",".","o","r","g">>),
          S(<<"f","o","r","m","s",".","g","l","e">>),
          S(<<"t","y","p","e","f","o","r","m",".","c","o","m">>),
          S(<<"a","p","p","s",".","a","p","p","l","e",".","c","o","m">>),
          S(<<"e","s","p","n",".","c","o","m">>),
          S(<<"l","i","n","k","t","r",".","e","e">>),
          S(<<"e","x","a","m","p","l","e",".","o","r","g">>),
          S(<<"h","t","t","p",":","/","/","[",":",":","1">>),
          S(<<"h","t","t","p",":","/","/">>),
          S(<<"f","t","p",":","/","/","g","i","t","h","u","b",".","c","o","m","/","a">>),
          S(<<"a","m","a","z","o","n",".","g","i","t","h","u","b",".","c","o","m">>),
          S(<<"w","w","w",".","m",".","x",".","c","o","m">>),
          S(<<"n","o","t","x",".","c","o","m">>),
          S(<<"l","o","c","a","l","h","o","s","t",":","8","0","8","0","/","a">>)}

\* URL entities without a URL
EmptyEntities ==
    {None,
     L(<<>>),
     D(<<>>),
     S(<<>>),
     L(<<D(<<>>)>>),
     L(<<I(5)>>),
     L(<<None>>),
     I(5),
     B(TRUE),
     L(<<D("expanded_url" :> S(<<>>))>>),
     D("url" :> None),
     D("expanded_url" :> S(<<>>) @@ "url" :> None @@ "display_url" :> S(<<>>)),
     L(<<D("url" :> I(0))>>)}

\* URL entities whose URL is a placeholder word
PlaceholderEntities ==
    {S(<<"n","a","n">>),
     D("url" :> S(<<"n","a","n">>)),
     L(<<D("expanded_url" :> S(<<"n","a","n">>))>>),
     L(<<S(<<"n","a","n">>)>>),
     S(<<"n","o","n","e">>),
     D("url" :> S(<<"n","o","n","e">>)),
     L(<<D("expanded_url" :> S(<<"n","o","n","e">>))>>),
     L(<<S(<<"n","o","n","e">>)>>),
     S(<<"n","u","l","l">>),
     D("url" :> S(<<"n","u","l","l">>)),
     L(<<D("expanded_url" :> S(<<"n","u","l","l">>))>>),
     L(<<S(<<"n","u","l","l">>)>>),
     S(<<"N","a","N">>),
     D("url" :> S(<<"N","a","N">>)),
     L(<<D("expanded_url" :> S(<<"N","a","N">>))>>),
     L(<<S(<<"N","a","N">>)>>),
     S(<<"N","o","n","e">>),
     D("url" :> S(<<"N","o","n","e">>)),
     L(<<D("expanded_url" :> S(<<"N","o","n","e">>))>>),
     L(<<S(<<"N","o","n","e">>)>>),
     S(<<"N","U","L","L">>),
     D("url" :> S(<<"N","U","L","L">>)),
     L(<<D("expanded_url" :> S(<<"N","U","L","L">>))>>),
     L(<<S(<<"N","U","L","L">>)>>),
     S(<<" ","n","a","n"," ">>),
     D("url" :> S(<<" ","n","a","n"," ">>)),
     L(<<D("expanded_url" :> S(<<" ","n","a","n"," ">>))>>),
     L(<<S(<<" ","n","a","n"," ">>)>>),
     D("display_url" :> S(<<"N","u","l","l">>)),
     L(<<D("expanded_url" :> S(<<>>) @@ "display_url" :> S(<<"n","a","n">>))>>)}

\* one URL in each shape of entity, with and without a scheme
ShapeEntities ==
    {S(<<"g","i","t","h","u","b",".","c","o","m">>),
     L(<<S(<<"g","i","t","h","u","b",".","c","o","m">>)>>),
     D("expanded_url" :> S(<<"g","i","t","h","u","b",".","c","o","m">>)),
     L(<<D("url" :> S(<<"g","i","t","h","u","b",".","c","o","m">>))>>),
     D("display_url" :> S(<<"g","i","t","h","u","b",".","c","o","m">>)),
     S(<<"h","t","t","p",":","/","/","g","i","t","h","u","b",".","c","o","m">>),
     L(<<S(<<"h","t","t","p",":","/","/","g","i","t","h","u","b",".","c","o","m">>)>>),
     D("expanded_url" :> S(<<"h","t","t","p",":","/","/","g","i","t","h","u","b",".","c","o","m">>)),
     L(<<D("url" :> S(<<"h","t","t","p",":","/","/","g","i","t","h","u","b",".","c","o","m">>))>>),
     D("display_url" :> S(<<"h","t","t","p",":","/","/","g","i","t","h","u","b",".","c","o","m">>)),
     S(<<"g","i","t","h","u","b",".","c","o","m","/","a","/","b">>),
     L(<<S(<<"g","i","t","h","u","b",".","c","o","m","/","a","/","b">>)>>),
     D("expanded_url" :> S(<<"g","i","t","h","u","b",".","c","o","m","/","a","/","b">>)),
     L(<<D("url" :> S(<<"g","i","t","h","u","b",".","c","o","m","/","a","/","b">>))>>),
     D("display_url" :> S(<<"g","i","t","h","u","b",".","c","o","m","/","a","/","b">>)),
     S(<<"h","t","t","p","s",":","/","/","t","w","i","t","t","e","r",".","c","o","m","/","x">>),
     L(<<S(<<"h","t","t","p","s",":","/","/","t","w","i","t","t","e","r",".","c","o","m","/","x">>)>>),
     D("expanded_url" :> S(<<"h","t","t","p","s",":","/","/","t","w","i","t","t","e","r",".","c","o","m","/","x">>)),
     L(<<D("url" :> S(<<"h","t","t","p","s",":","/","/","t","w","i","t","t","e","r",".","c","o","m","/","x">>))>>),
     D("display_url" :> S(<<"h","t","t","p","s",":","/","/","t","w","i","t","t","e","r",".","c","o","m","/","x">>)),
     S(<<"t","w","i","t","t","e","r",".","c","o","m","/","x">>),
     L(<<S(<<"t","w","i","t","t","e","r",".","c","o","m","/","x">>)>>),
     D("expanded_url" :> S(<<"t","w","i","t","t","e","r",".","c","o","m","/","x">>)),
     L(<<D("url" :> S(<<"t","w","i","t","t","e","r",".","c","o","m","/","x">>))>>),
     D("display_url" :> S(<<"t","w","i","t","t","e","r",".","c","o","m","/","x">>)),
     S(<<"b","i","t",".","l","y","/","a">>),
     L(<<S(<<"b","i","t",".","l","y","/","a">>)>>),
     D("expanded_url" :> S(<<"b","i","t",".","l","y","/","a">>)),
     L(<<D("url" :> S(<<"b","i","t",".","l","y","/","a">>))>>),
     D("display_url" :> S(<<"b","i","t",".","l","y","/","a">>)),
     S(<<"/","/","g","i","t","h","u","b",".","c","o","m","/","a">>),
     L(<<S(<<"/","/","g","i","t","h","u","b",".","c","o","m","/","a">>)>>),
     D("expanded_url" :> S(<<"/","/","g","i","t","h","u","b",".","c","o","m","/","a">>)),
     L(<<D("url" :> S(<<"/","/","g","i","t","h","u","b",".","c","o","m","/","a">>))>>),
     D("display_url" :> S(<<"/","/","g","i","t","h","u","b",".","c","o","m","/","a">>)),
     D("expanded_url" :> S(<<>>) @@ "url" :> S(<<"g","i","t","h","u","b",".","c","o","m","/","a">>) @@ "display_url" :> S(<<"t",".","c","o">>)),
     D("expanded_url" :> S(<<"h","t","t","p","s",":","/","/","n","y","t","i","m","e","s",".","c","o","m","/","a">>) @@ "url" :> S(<<"h","t","t","p","s",":","/","/","t",".","c","o","/","b">>) @@ "display_url" :> S(<<"n","y","t","i","m","e","s",".","c","o","m","/","a">>)),
     D("expanded_url" :> None @@ "url" :> S(<<>>) @@ "display_url" :> S(<<"e","s","p","n",".","c","o","m","/","n","b","a">>)),
     L(<<D("expanded_url" :> None @@ "url" :> S(<<"h","t","t","p","s",":","/","/","t",".","c","o","/","b">>) @@ "display_url" :> S(<<"n","y","t","i","m","e","s",".","c","o","m","/","a">>))>>),
     L(<<D("url" :> I(5))>>),
     D("url" :> I(5)),
     L(<<D("url" :> S(<<"h","t","t","p",":","/","/","[",":",":","1">>))>>),
     L(<<S(<<"h","t","t","p",":","/","/","[",":",":","1">>)>>),
     S(<<"h","t","t","p",":","/","/","[",":",":","1">>),
     L(<<S(<<"g","i","t","h","u","b",".","c","o","m">>), D("url" :> S(<<"g","i","t","h","u","b",".","c","o","m">>))>>)}

\* one URL on google.com
GoogleEntities ==
    {L(<<D("expanded_url" :> S(<<"h","t","t","p","s",":","/","/","w","w","w",".","g","o","o","g","l","e",".","c","o","m","/","m","a","p","s","/","p","l","a","c","e">>))>>),
     D("url" :> S(<<"h","t","t","p","s",":","/","/","w","w","w",".","g","o","o","g","l","e",".","c","o","m","/","m","a","p","s","/","p","l","a","c","e">>)),
     L(<<D("expanded_url" :> S(<<"h","t","t","p","s",":","/","/","g","o","o","g","l","e",".","c","o","m","/","f","o","r","m","s","/","x">>))>>),
     D("url" :> S(<<"h","t","t","p","s",":","/","/","g","o","o","g","l","e",".","c","o","m","/","f","o","r","m","s","/","x">>)),
     L(<<D("expanded_url" :> S(<<"h","t","t","p","s",":","/","/","w","w","w",".","g","o","o","g","l","e",".","c","o","m","/","d","r","i","v","e","/","u">>))>>),
     D("url" :> S(<<"h","t","t","p","s",":","/","/","w","w","w",".","g","o","o","g","l","e",".","c","o","m","/","d","r","i","v","e","/","u">>)),
     L(<<D("expanded_url" :> S(<<"h","t","t","p","s",":","/","/","g","o","o","g","l","e",".","c","o","m","/","f","i","l","e","/","1">>))>>),
     D("url" :> S(<<"h","t","t","p","s",":","/","/","g","o","o","g","l","e",".","c","o","m","/","f","i","l","e","/","1">>)),
     L(<<D("expanded_url" :> S(<<"h","t","t","p","s",":","/","/","g","o","o","g","l","e",".","c","o","m","/","d","o","c">>))>>),
     D("url" :> S(<<"h","t","t","p","s",":","/","/","g","o","o","g","l","e",".","c","o","m","/","d","o","c">>)),
     L(<<D("expanded_url" :> S(<<"h","t","t","p","s",":","/","/","d","o","c","s",".","g","o","o","g","l","e",".","c","o","m","/","d","o","c","u","m","e","n","t","/","d","/","1">>))>>),
     D("url" :> S(<<"h","t","t","p","s",":","/","/","d","o","c","s",".","g","o","o","g","l","e",".","c","o","m","/","d","o","c","u","m","e","n","t","/","d","/","1">>)),
     L(<<D("expanded_url" :> S(<<"h","t","t","p","s",":","/","/","d","o","c","s",".","g","o","o","g","l","e",".","c","o","m","/","f","o","r","m","s","/","d","/","1">>))>>),
     D("url" :> S(<<"h","t","t","p","s",":","/","/","d","o","c","s",".","g","o","o","g","l","e",".","c","o","m","/","f","o","r","m","s","/","d","/","1">>)),
     L(<<D("expanded_url" :> S(<<"h","t","t","p","s",":","/","/","m","a","p","s",".","g","o","o","g","l","e",".","c","o","m","/","m","a","p","s">>))>>),
     D("url" :> S(<<"h","t","t","p","s",":","/","/","m","a","p","s",".","g","o","o","g","l","e",".","c","o","m","/","m","a","p","s">>)),
     L(<<D("expanded_url" :> S(<<"h","t","t","p","s",":","/","/","g","o","o","g","l","e",".","c","o","m","/","s","e","a","r","c","h">>))>>),
     D("url" :> S(<<"h","t","t","p","s",":","/","/","g","o","o","g","l","e",".","c","o","m","/","s","e","a","r","c","h">>)),
     L(<<D("expanded_url" :> S(<<"g","o","o","g","l","e",".","c","o","m","/","m","a","p","s">>))>>),
     D("url" :> S(<<"g","o","o","g","l","e",".","c","o","m","/","m","a","p","s">>))}

\* the URLs of the lists that vote: social, news, dev/code, sports,
\* short_link, personal/other and a URL without a host
VoteUrls ==
    {S(<<"h","t","t","p","s",":","/","/","t","w","i","t","t","e","r",".","c","o","m","/","a">>),
     S(<<"h","t","t","p","s",":","/","/","n","y","t","i","m","e","s",".","c","o","m","/","b">>),
     S(<<"h","t","t","p","s",":","/","/","g","i","t","h","u","b",".","c","o","m","/","c">>),
     S(<<"h","t","t","p","s",":","/","/","e","s","p","n",".","c","o","m","/","d">>),
     S(<<"h","t","t","p","s",":","/","/","b","i","t",".","l","y","/","e">>),
     S(<<"h","t","t","p","s",":","/","/","e","x","a","m","p","l","e",".","o","r","g","/","f">>),
     S(<<"h","t","t","p",":","/","/","/","g">>)}

\* lists of one to MaxUrls URL objects, each with one of the voting URLs
VoteEntities ==
    {L(objs) :
        objs \in UNION {[1..n -> {D("expanded_url" :> u) : u \in VoteUrls}] :
                          n \in 1..MaxUrls}}

UrlEntityInputs ==
    EmptyEntities \cup PlaceholderEntities \cup ShapeEntities
    \cup GoogleEntities \cup VoteEntities

InitUrl ==
    /\ pc = "call"
    /\ ret = Pending
    /\ \/ fn = "_normalize_host" /\ args \in {<<h>> : h \in HostInputs}
       \/ fn = "url_domain_category" /\ args \in {<<u>> : u \in UrlTextInputs}
       \/ fn = "url_domain_categories" /\ args \in {<<e>> : e \in UrlEntityInputs}
    /\ NoBatch

\* host = (host or "") before the host is stripped and lower-cased
CallNormalizeHost ==
    Return("_normalize_host", S(normalize_host(Or(args[1], S(<<>>)).v)))
CallUrlCategory == Return("url_domain_category", url_domain_category(args[1]))
CallUrlCategories ==
    Return("url_domain_categories", url_domain_categories(args[1]))

NextUrl == CallNormalizeHost \/ CallUrlCategory \/ CallUrlCategories

SpecUrl == InitUrl /\ [][NextUrl]_vars

(***************************************************************************)
(* The batch tools: process_user_file on a .json, a .csv or another file,  *)
(* and process_fox8_json_streaming.  One action handles one record.        *)
(***************************************************************************)
HttpsPrefix == <<"h","t","t","p","s",":","/","/">>

\* re.findall(r'https?://\S+', text): the matches from left to right
RECURSIVE FindUrls(_)
FindUrls(text) ==
    IF text = <<>> THEN <<>>
    ELSE LET p == IF StartsWith(text, HttpsPrefix) THEN Len(HttpsPrefix)
                  ELSE IF StartsWith(text, HttpPrefix) THEN Len(HttpPrefix)
                  ELSE 0
             stop == FirstIndex(text, WhiteSpace, p + 1)
         IN  IF p > 0 /\ stop > p + 1
             THEN <<SubSeq(text, 1, stop - 1)>> \o FindUrls(Drop(text, stop - 1))
             ELSE FindUrls(Tail(text))

\* what handling one record does: nothing (continue), an exception that
\* leaves the loop, or output_dict[key] = value
Skip == [kind |-> "skip"]
Fail(where) == [kind |-> "raise", at |-> where]
Put(k, v) == [kind |-> "put", key |-> k, value |-> v]

NoneText == <<"N","o","n","e">>

\* the entry process_user_file stores for a user
ProfileEntry(pf) ==
    [profile_features |-> pf.features, profile_features_missing |-> pf.missing]

\* pf, pf_missing = extract_profile_features(user); output_dict[user_id] = ...
StoreProfile(user_id, pf) ==
    IF IsRaised(pf) THEN Fail("extract_profile_features")
    ELSE Put(user_id, ProfileEntry(pf))

\* every record extracted and stored, whatever its ID
StoreWithoutId(user_id, user) ==
    StoreProfile(user_id, extract_profile_features(user))

\* a record without an ID ('' or 'None') is skipped, any other is extracted
ExtractAndStore(user_id, user) ==
    IF user_id = <<>> \/ user_id = NoneText THEN Skip
    ELSE StoreProfile(user_id, extract_profile_features(user))

\* str(user.get("id_str") or user.get("id")); user.get fails on a user that
\* is no dict
JsonUser(user) ==
    IF user.t # "dict" THEN Fail("user")
    ELSE ExtractAndStore(PyStr(Or(Get(user, "id_str"), Get(user, "id"))), user)

\* the JSON branch: one entry of data_list
json_entry(entry) ==
    IF entry.t # "dict" THEN Fail("entry")
    ELSE JsonUser(GetOr(entry, "user", entry))

bool_fields_to_fix ==
    <<"verified", "protected", "default_profile_image", "default_profile",
      "geo_enabled">>

CsvTrueWords ==
    {<<"1">>, <<"t","r","u","e">>, <<"y","e","s">>, <<"y">>, <<"t">>}

\* the column value left in the row as the reader gave it
CsvBoolKept(original_value) == original_value

\* the value the CSV branch writes back into row[field]
CsvBool(original_value) ==
    B(Lower(Strip(PyStr(Or(original_value, S(<<>>))))) \in CsvTrueWords)

\* [{'expanded_url': u} for u in desc_urls]
UrlObjects(found) == L([i \in DOMAIN found |-> D("expanded_url" :> S(found[i]))])

\* entities['description']['urls'] from the description column
CsvDescUrls(desc_text) ==
    IF Truthy(desc_text) THEN UrlObjects(FindUrls(desc_text.v)) ELSE L(<<>>)

\* entities['url']['urls'] from the url column
CsvBioUrls(bio_url) ==
    IF Truthy(bio_url) THEN L(<<D("expanded_url" :> bio_url)>>) ELSE L(<<>>)

\* the row with 'entities' set and the boolean columns overwritten
CsvFixed(row, fields, entities) ==
    D([k \in DOMAIN row.v \cup fields \cup {"entities"} |->
          IF k = "entities" THEN entities
          ELSE IF k \in fields THEN CsvBool(Get(row, k))
          ELSE row.v[k]])

\* the row as a user object: the booleans fixed, the 'entities' built from
\* the URLs found in the description text and from the url column
csv_user_obj(row) ==
    CsvFixed(row, Range(bool_fields_to_fix),
             D([description |->
                    D("urls" :> CsvDescUrls(GetOr(row, "description", S(<<>>)))),
                url |-> D("urls" :> CsvBioUrls(GetOr(row, "url", S(<<>>))))]))

\* the CSV branch: one row of the reader
csv_row(row) ==
    ExtractAndStore(
        PyStr(Or(Or(Get(row, "id"), Get(row, "user_id")), Get(row, "uid"))),
        csv_user_obj(row))


(***************************************************************************)
(* process_fox8_json_streaming and its tweet features.                     *)
(***************************************************************************)
ZeroWidth == "U+200B"
NotZeroWidth(c) == c # ZeroWidth

\* clean_text of the streaming tool: '' for None; html.unescape (which returns
\* its argument when it holds no '&', as every text of the model), U+200B
\* removed, white-space runs collapsed, stripped.  A value that is not text
\* raises (TypeError in html.unescape or AttributeError on replace).
tweet_clean_text(s) ==
    IF s = None THEN S(<<>>)
    ELSE IF s.t # "str" THEN Raised
    ELSE S(Strip(CollapseSpace(SelectSeq(s.v, NotZeroWidth))))

\* re.sub(r'<[^>]+>', '', s)
RECURSIVE StripTags(_)
StripTags(s) ==
    IF s = <<>> THEN <<>>
    ELSE LET close == FirstIndex(s, {">"}, 2)
         IN  IF s[1] = "<" /\ 2 < close /\ close <= Len(s)
             THEN StripTags(Drop(s, close))
             ELSE <<s[1]>> \o StripTags(Tail(s))

Unknown == <<"U","n","k","n","o","w","n">>

SourceOrUnknown(text) == IF text = <<>> THEN S(Unknown) ELSE S(text)

parse_source(s) ==
    IF ~Truthy(s) THEN S(Unknown)
    ELSE IF s.t # "str" THEN Raised
    ELSE SourceOrUnknown(Strip(StripTags(s.v)))

\* urlparse(u).netloc.lower(), '' when urlparse raises
LowerHost(parsed) == IF IsRaised(parsed) THEN <<>> ELSE Lower(parsed.netloc)

\* if host: domains.append(host)
KeepHost(host, more) == IF host = <<>> THEN more ELSE <<host>> \o more

\* the hosts extract_url_domains keeps: the lower-cased netloc of every URL
\* that parses and has one
RECURSIVE UrlDomains(_)
UrlDomains(urls) ==
    IF urls = <<>> THEN <<>>
    ELSE KeepHost(LowerHost(urlsplit(urls[1])), UrlDomains(Tail(urls)))

\* len(x), TypeError when x has none
PyLen(x) ==
    IF ~HasLen(x) THEN Raised
    ELSE IF x.t = "dict" THEN I(Cardinality(DOMAIN x.v))
    ELSE I(Len(x.v))

EntityNames == {"hashtags", "urls", "user_mentions"}

\* len(entities.get(name, [])) raises for one of the three entity lists
EntitiesRaise(entities) ==
    \/ entities.t # "dict"
    \/ \E k \in EntityNames : IsRaised(PyLen(GetOr(entities, k, L(<<>>))))

\* extract_tweet_features raises on this tweet
tweet_raises(tweet) ==
    \/ tweet.t # "dict"
    \/ IsRaised(tweet_clean_text(GetOr(tweet, "text", S(<<>>))))
    \/ IsRaised(parse_source(GetOr(tweet, "source", S(<<>>))))
    \/ EntitiesRaise(GetOr(tweet, "entities", EmptyDict))

\* the event dict (created_at_iso, hour_of_day and day_of_week, which
\* parse_ts computes without ever raising, are not part of the modelled event)
TweetEvent(tweet, text, urls, entities) ==
    [tweet_id |-> PyStr(Get(tweet, "id")),
     client_source |-> parse_source(GetOr(tweet, "source", S(<<>>))).v,
     is_retweet |->
         Truthy(Or(Get(tweet, "retweeted_status_id"),
                   Get(tweet, "retweeted_status"))),
     is_reply |->
         Truthy(Or(Get(tweet, "in_reply_to_status_id"),
                   Get(tweet, "in_reply_to_user_id"))),
     len_chars |-> Len(text),
     num_hashtags |-> PyLen(GetOr(entities, "hashtags", L(<<>>))).v,
     num_urls |-> PyLen(GetOr(entities, "urls", L(<<>>))).v,
     num_mentions |-> PyLen(GetOr(entities, "user_mentions", L(<<>>))).v,
     retweet_count |-> GetOr(tweet, "retweet_count", I(0)),
     favorite_count |-> GetOr(tweet, "favorite_count", I(0)),
     urls |-> urls,
     url_domains |-> UrlDomains(urls),
     text |-> text]

EventOfText(tweet, text) ==
    TweetEvent(tweet, text, FindUrls(text), GetOr(tweet, "entities", EmptyDict))

\* the event of a tweet on which extract_tweet_features does not raise
extract_tweet_features(tweet) ==
    EventOfText(tweet, tweet_clean_text(GetOr(tweet, "text", S(<<>>))).v)

\* a loop over user_tweets that the first tweet that raises ends
RECURSIVE TweetEventsUntilFailure(_)
TweetEventsUntilFailure(user_tweets) ==
    IF user_tweets = <<>> \/ tweet_raises(user_tweets[1]) THEN <<>>
    ELSE <<extract_tweet_features(user_tweets[1])>>
         \o TweetEventsUntilFailure(Tail(user_tweets))

\* the loop over user_tweets: a tweet that raises is left out
RECURSIVE TweetEvents(_)
TweetEvents(user_tweets) ==
    IF user_tweets = <<>> THEN <<>>
    ELSE (IF tweet_raises(user_tweets[1]) THEN <<>>
          ELSE <<extract_tweet_features(user_tweets[1])>>)
         \o TweetEvents(Tail(user_tweets))

\* output_dict[user_id] = {...}; an exception of extract_profile_features is
\* caught and the entry skipped
Fox8Store(user_entry, user_id, user_tweets, pf) ==
    IF IsRaised(pf) THEN Skip
    ELSE Put(user_id,
             [profile_features |-> pf.features,
              profile_features_missing |-> pf.missing,
              tweet_events |-> TweetEvents(user_tweets),
              label |-> Get(user_entry, "label"),
              dataset |-> Get(user_entry, "dataset")])

\* an empty user_info is skipped; one that is no dict makes
\* extract_profile_features raise inside the try
Fox8Profile(user_entry, user_id, user_tweets, user_info) ==
    IF ~Truthy(user_info) THEN Skip
    ELSE IF user_info.t # "dict" THEN Skip
    ELSE Fox8Store(user_entry, user_id, user_tweets,
                   extract_profile_features(user_info))

\* user_tweets[0].get fails outside any try unless user_tweets is a list
\* whose first element is a dict
Fox8Tweets(user_entry, user_id, user_tweets) ==
    IF ~Truthy(user_tweets) THEN Skip
    ELSE IF user_tweets.t # "list" THEN Fail("user_tweets")
    ELSE IF user_tweets.v[1].t # "dict" THEN Fail("user_tweets")
    ELSE Fox8Profile(user_entry, user_id, user_tweets.v,
                     GetOr(user_tweets.v[1], "user", EmptyDict))

Fox8User(user_entry, user_id) ==
    IF user_id = <<>> THEN Skip
    ELSE Fox8Tweets(user_entry, user_id,
                    GetOr(user_entry, "user_tweets", L(<<>>)))

\* one entry of the streamed array
fox8_entry(user_entry) ==
    IF user_entry.t # "dict" THEN Fail("user_entry")
    ELSE Fox8User(user_entry, PyStr(Get(user_entry, "user_id")))


(***************************************************************************)
(* process_tweets_to_json.py: the event process_csv builds from a CSV row. *)
(***************************************************************************)
UpperChar(c) ==
    IF IsLower(c)
    THEN UpperLetters[CHOOSE i \in DOMAIN LowerLetters : LowerLetters[i] = c]
    ELSE c

\* str.upper()
Upper(s) == [i \in DOMAIN s |-> UpperChar(s[i])]

NullWord == <<"N","U","L","L">>

\* x and x.strip() and x.strip().upper() != "NULL", for the text or None x
\* of the retweeted_status_id column
RetweetRef(x) ==
    Truthy(x) /\ Strip(x.v) # <<>> /\ Upper(Strip(x.v)) # NullWord

\* x and x.strip() not in ("", "0", "NULL"), for the text or None x of an
\* in_reply_to column
ReplyRef(x) == Truthy(x) /\ Strip(x.v) \notin {<<>>, <<"0">>, NullWord}

\* parse_source: strip_tags(s or ""), "Unknown" when nothing is left
csv_parse_source(s) == SourceOrUnknown(StripTags(Or(s, S(<<>>)).v))

\* len(HASHTAG_RE.findall(text)) and len(MENTION_RE.findall(text)): the
\* sigils that a word character follows
CountSigil(text, sigil) ==
    Cardinality({i \in DOMAIN text :
                    text[i] = sigil /\ i < Len(text) /\ IsWord(text[i + 1])})

DefaultWords == {<<>>, NullWord, NoneText, <<"N","a","N">>}

\* the except clause of safe_int: every exception becomes the default
IntOrDefault(n, default) == IF IsRaised(n) THEN default ELSE n.v
IntOfFloatOr(f, default) ==
    IF IsRaised(f) THEN default ELSE IntOrDefault(PyInt(f), default)

\* int(float(s)) of the stripped text s, the default on a placeholder word
IntOfText(s, default) ==
    IF s \in DefaultWords THEN default ELSE IntOfFloatOr(ParseFloat(s), default)

\* safe_int(x, default) of process_tweets_to_json.py
tweet_safe_int(x, default) ==
    IF x = None THEN default ELSE IntOfText(Strip(PyStr(x)), default)

\* event["text"] = text, when keep_text
WithText(event, text, keep_text) ==
    IF keep_text THEN event @@ ("text" :> text) ELSE event

\* the event dict of a row (created_at_iso, hour_of_day and day_of_week,
\* which parse_ts computes without ever raising, are not part of the
\* modelled event)
CsvEventOf(row, text, urls) ==
    [tweet_id |-> Get(row, "id"),
     client_source |-> csv_parse_source(Get(row, "source")).v,
     is_retweet |-> RetweetRef(Get(row, "retweeted_status_id")),
     is_reply |->
         \/ ReplyRef(Get(row, "in_reply_to_status_id"))
         \/ ReplyRef(Get(row, "in_reply_to_user_id")),
     len_chars |-> Len(text),
     num_hashtags |->
         tweet_safe_int(Get(row, "num_hashtags"), CountSigil(text, "#")),
     num_urls |-> tweet_safe_int(Get(row, "num_urls"), Len(urls)),
     num_mentions |->
         tweet_safe_int(Get(row, "num_mentions"), CountSigil(text, "@")),
     retweet_count |-> tweet_safe_int(Get(row, "retweet_count"), 0),
     reply_count |-> tweet_safe_int(Get(row, "reply_count"), 0),
     favorite_count |-> tweet_safe_int(Get(row, "favorite_count"), 0),
     urls |-> urls,
     url_domains |-> UrlDomains(urls)]

CsvEventOfText(row, text, keep_text) ==
    WithText(CsvEventOf(row, text, FindUrls(text)), text, keep_text)

\* the event of one row of the tweets CSV
csv_event(row, keep_text) ==
    CsvEventOfText(row, tweet_clean_text(Get(row, "text")).v, keep_text)

\* user_id = (row.get("user_id") or "").strip()
csv_user_id(row) == Strip(Or(Get(row, "user_id"), S(<<>>)).v)

(***************************************************************************)
(* Input files of the batch tools: up to MaxRecords records each.          *)
(***************************************************************************)
JsonEntries ==
    {MkDict([id_str |-> S(<<"1">>), followers_count |-> I(10), friends_count |-> I(3)]),
     MkDict([id_str |-> S(<<"1">>), followers_count |-> I(7)]),
     MkDict([id |-> I(2), verified |-> S(<<"m","a","y","b","e">>)]),
     D("user" :> MkDict([id_str |-> S(<<"3">>), description |-> S(<<"h","i"," ","h","t","t","p",":","/","/","t",".","c","o","/","a">>)])),
     MkDict([id_str |-> S(<<"4">>), entities |-> None]),
     MkDict([id |-> I(5), lang |-> I(5)]),
     MkDict([followers_count |-> I(1)]),
     MkDict([id_str |-> S(<<>>), id |-> I(0)]),
     MkDict([id_str |-> None, id |-> None]),
     MkDict([id_str |-> S(<<"6">>), id |-> I(7)]),
     D("user" :> None),
     S(<<"x">>)}

\* the text of the boolean columns of a CSV (None: a row shorter than the
\* header; Absent: no such column)
CsvBoolValues ==
    <<S(<<"1">>), S(<<"0">>), S(<<"T","R","U","E">>), S(<<" ","y","e","s"," ">>), S(<<"m","a","y","b","e">>), S(<<>>), None, Absent>>

\* row k gives the five boolean columns the values k, k+1, ... of CsvBoolValues
CsvBoolAt(k) == CsvBoolValues[((k - 1) % Len(CsvBoolValues)) + 1]
CsvBoolRows ==
    {MkDict([id |-> S(NatToStr(k)),
             verified |-> CsvBoolAt(k),
             protected |-> CsvBoolAt(k + 1),
             default_profile_image |-> CsvBoolAt(k + 2),
             default_profile |-> CsvBoolAt(k + 3),
             geo_enabled |-> CsvBoolAt(k + 4)]) : k \in 1..Len(CsvBoolValues)}

CsvRows ==
    CsvBoolRows \cup
    {MkDict([id |-> S(<<"1">>), description |-> S(<<"s","e","e"," ","h","t","t","p","s",":","/","/","g","i","t","h","u","b",".","c","o","m","/","a"," ","h","t","t","p",":","/","/","b">>),
             followers_count |-> S(<<"1","0">>), friends_count |-> S(<<"4">>)]),
     MkDict([id |-> S(<<>>), user_id |-> S(<<"7">>), url |-> S(<<"h","t","t","p","s",":","/","/","t",".","c","o","/","x">>),
             name |-> S(<<"A","l">>), screen_name |-> S(<<"a","l">>)]),
     MkDict([id |-> None, uid |-> S(<<"9">>), lang |-> S(<<"e","n">>), time_zone |-> S(<<"N","e","w"," ","D","e","l","h","i">>)]),
     MkDict([id |-> S(<<"1","2">>), description |-> S(<<"a","t"," ","h","t","t","p",":","/","/","[",":",":","1"," ","n","o","w">>)]),
     MkDict([id |-> S(<<"1","3">>), url |-> S(<<"h","t","t","p",":","/","/","[","x">>)]),
     MkDict([id |-> S(<<>>), verified |-> S(<<"1">>)]),
     MkDict([id |-> S(<<"1","4">>), user_id |-> S(<<"1","5">>), uid |-> S(<<>>)]),
     MkDict([user_id |-> S(<<"N","o","n","e">>)]),
     MkDict([description |-> S(<<"h","i">>)])}

FoxUser == MkDict([followers_count |-> I(10), friends_count |-> I(3)])
Tweet11 ==
    MkDict([id |-> I(11), user |-> FoxUser, text |-> S(<<" ","s","e","e"," "," ","h","t","t","p",":","/","/","t",".","c","o","/","a"," ">>),
            source |-> S(<<"<","a"," ","h","r","e","f","=","x",">","W","e","b","<","/","a",">">>), retweeted_status_id |-> S(<<"1","2">>),
            retweet_count |-> I(3),
            entities |-> MkDict([hashtags |-> L(<<D("text" :> S(<<"a">>))>>),
                                 urls |-> L(<<>>)])])
Tweet13 ==
    MkDict([id |-> S(<<"1","3">>), user |-> FoxUser, text |-> None,
            in_reply_to_user_id |-> I(0), in_reply_to_status_id |-> None])
Tweet14 ==
    MkDict([id |-> I(14), text |-> S(<<"a", ZeroWidth, "b"," ","h","t","t","p","s",":","/","/","[","x">>),
            source |-> S(<<"<",">">>), in_reply_to_user_id |-> S(<<"0">>)])
Tweet15 ==
    MkDict([id |-> I(15), user |-> MkDict([entities |-> None])])
Tweet16 ==
    MkDict([id |-> I(16), user |-> FoxUser, entities |-> None])
Tweet17 ==
    MkDict([id |-> I(17), text |-> I(5)])
Tweet18 ==
    MkDict([id |-> I(18), source |-> I(5)])
Tweet19 ==
    MkDict([id |-> I(19), entities |-> MkDict([hashtags |-> None])])
Tweet20 ==
    MkDict([id |-> I(20), user |-> S(<<"x">>)])

Fox8Entries ==
    {MkDict([user_id |-> S(<<"1">>), user_tweets |-> L(<<Tweet11, Tweet13>>),
             label |-> S(<<"b","o","t">>), dataset |-> S(<<"f","o","x","8">>)]),
     MkDict([user_id |-> S(<<"1">>), user_tweets |-> L(<<Tweet13>>)]),
     MkDict([user_id |-> I(2), user_tweets |-> L(<<Tweet11, Tweet16, Tweet14>>)]),
     MkDict([user_id |-> S(<<"3">>),
             user_tweets |-> L(<<Tweet13, Tweet17, Tweet18, Tweet19>>)]),
     MkDict([user_id |-> S(<<"4">>), user_tweets |-> L(<<Tweet15, Tweet11>>)]),
     MkDict([user_tweets |-> L(<<Tweet11>>)]),
     MkDict([user_id |-> None, user_tweets |-> L(<<Tweet13>>),
             label |-> S(<<"h","u","m","a","n">>)]),
     MkDict([user_id |-> S(<<>>), user_tweets |-> L(<<Tweet11>>)]),
     MkDict([user_id |-> S(<<"5">>)]),
     MkDict([user_id |-> S(<<"6">>), user_tweets |-> L(<<>>)]),
     MkDict([user_id |-> S(<<"7">>), user_tweets |-> L(<<Tweet14>>)]),
     MkDict([user_id |-> S(<<"8">>), user_tweets |-> L(<<Tweet20>>)]),
     MkDict([user_id |-> S(<<"9">>), user_tweets |-> L(<<None, Tweet11>>)]),
     MkDict([user_id |-> S(<<"1","0">>), user_tweets |-> S(<<"x">>)])}

Tools ==
    {"process_user_file.json", "process_user_file.csv", "process_user_file.txt",
     "process_fox8_json_streaming"}

\* the records of an input file of the tool
RecordsOf(name) ==
    CASE name = "process_user_file.json" -> JsonEntries
      [] name = "process_user_file.csv" -> CsvRows
      [] name = "process_user_file.txt" -> {S(<<"x">>)}
      [] name = "process_fox8_json_streaming" -> Fox8Entries

Files(name) == UNION {[1..n -> RecordsOf(name)] : n \in 0..MaxRecords}

InitBatch ==
    /\ pc = "batch"
    /\ fn = "none"
    /\ args = <<>>
    /\ ret = Pending
    /\ tool \in Tools
    /\ records \in Files(tool)
    /\ idx = 0
    /\ output_dict = <<>>
    /\ status = "running"
    /\ users = <<>>
    /\ count_rows = 0

\* an assignment that keeps the entry a key already has
AssignIfNew(out, key, value) ==
    [k \in DOMAIN out \cup {key} |-> IF k \in DOMAIN out THEN out[k] ELSE value]

\* output_dict[user_id] = {...}
Assign(out, key, value) ==
    [k \in DOMAIN out \cup {key} |-> IF k = key THEN value ELSE out[k]]

\* one pass of the loop with the outcome o of the record: the record is
\* skipped, or stored under its key, or its exception ends the tool before
\* anything is written
Handle(name, o) ==
    /\ pc = "batch"
    /\ tool = name
    /\ status = "running"
    /\ idx < Len(records)
    /\ IF o.kind = "raise"
       THEN /\ status' = "aborted"
            /\ UNCHANGED <<idx, output_dict>>
       ELSE /\ idx' = idx + 1
            /\ status' = status
            /\ output_dict' =
                  IF o.kind = "skip" THEN output_dict
                  ELSE Assign(output_dict, o.key, o.value)
    /\ UNCHANGED <<pc, fn, args, ret, tool, records, users, count_rows>>

JsonEntry == Handle("process_user_file.json", json_entry(records[idx + 1]))
CsvRow == Handle("process_user_file.csv", csv_row(records[idx + 1]))
Fox8Entry ==
    Handle("process_fox8_json_streaming", fox8_entry(records[idx + 1]))

\* a file that is neither .json nor .csv: an error message, nothing written
UnsupportedSuffix ==
    /\ pc = "batch"
    /\ tool = "process_user_file.txt"
    /\ status = "running"
    /\ status' = "unsupported"
    /\ UNCHANGED <<pc, fn, args, ret, tool, records, idx, output_dict, users,
                   count_rows>>

\* json.dump(output_dict, f) after the loop
WriteOutput ==
    /\ pc = "batch"
    /\ tool # "process_user_file.txt"
    /\ status = "running"
    /\ idx = Len(records)
    /\ status' = "written"
    /\ UNCHANGED <<pc, fn, args, ret, tool, records, idx, output_dict, users,
                   count_rows>>

NextBatch == JsonEntry \/ CsvRow \/ Fox8Entry \/ UnsupportedSuffix \/ WriteOutput

SpecBatch == InitBatch /\ [][NextBatch]_vars

(***************************************************************************)
(* One call of clean_text, the text normalizer of the profile extractor.   *)
(***************************************************************************)
CleanAlphabet == {"a", " ", "\t", DEL, NBSP}
CleanTexts ==
    {<<" ","a","\t",DEL," ","b",NBSP>>, <<"a"," "," ","b">>,
     <<DEL,"a",DEL,DEL,"b",DEL>>, <<NBSP,NBSP,"a","\n","\n","b">>,
     <<"a","U+4E2D"," ","\t"," ","U+1F600">>, <<" ","\t","\n",DEL,NBSP>>}
CleanTextInputs ==
    ScalarValues \cup {L(<<S(<<" "," ">>), S(<<"a">>)>>)}
    \cup {S(s) : s \in StringsUpTo(CleanAlphabet, MaxLen) \cup CleanTexts}

InitText ==
    /\ pc = "call"
    /\ ret = Pending
    /\ fn = "clean_text"
    /\ args \in {<<x>> : x \in CleanTextInputs}
    /\ NoBatch

CallCleanText == Return("clean_text", S(clean_text(args[1])))

NextText == CallCleanText

SpecText == InitText /\ [][NextText]_vars

(***************************************************************************)
(* One call of a tweet feature extractor: extract_tweet_features of the    *)
(* streaming tool on a tweet, or the loop body of process_csv on a row.    *)
(***************************************************************************)
RefTexts ==
    {<<>>, <<"0">>, <<" ">>, NullWord, <<"n","u","l","l">>,
     <<" ","N","U","L","L"," ">>, <<"1","2">>, <<" ","0"," ">>}

\* a reference column of the tweets CSV: text, None in a row shorter than
\* the header, or no such column
CsvRefs == {S(s) : s \in RefTexts} \cup {None, Absent}

\* a reference field of a tweet object
JsonRefs == CsvRefs \cup {I(0), I(12)}

\* the retweeted_status object of a tweet
StatusRefs == {Absent, None, EmptyDict, D("id" :> I(1))}

EventRows ==
    {MkDict([user_id |-> S(<<"1">>), id |-> S(<<"5">>),
             text |-> S(<<"h","i"," ","#","a">>),
             retweeted_status_id |-> r,
             in_reply_to_status_id |-> Absent,
             in_reply_to_user_id |-> Absent]) : r \in CsvRefs}
    \cup
    {MkDict([user_id |-> S(<<"1">>), id |-> S(<<"5">>),
             retweeted_status_id |-> S(<<>>),
             in_reply_to_status_id |-> r[1],
             in_reply_to_user_id |-> r[2]]) : r \in CsvRefs \X CsvRefs}

EventTweets ==
    {MkDict([id |-> I(5), text |-> S(<<"h","i"," ","#","a">>),
             retweeted_status_id |-> r[1],
             retweeted_status |-> r[2]]) : r \in JsonRefs \X StatusRefs}
    \cup
    {MkDict([id |-> I(5),
             in_reply_to_status_id |-> r[1],
             in_reply_to_user_id |-> r[2]]) : r \in JsonRefs \X JsonRefs}

InitEvent ==
    /\ pc = "call"
    /\ ret = Pending
    /\ \/ fn = "extract_tweet_features" /\ args \in {<<t>> : t \in EventTweets}
       \/ fn = "csv_event" /\ args \in EventRows \X BOOLEAN
    /\ NoBatch

\* extract_tweet_features(tweet), or the exception it raises
TweetFeaturesOrRaise(tweet) ==
    IF tweet_raises(tweet) THEN Raised ELSE extract_tweet_features(tweet)

CallTweetFeatures ==
    Return("extract_tweet_features", TweetFeaturesOrRaise(args[1]))
CallCsvEvent == Return("csv_event", csv_event(args[1], args[2]))

NextEvent == CallTweetFeatures \/ CallCsvEvent

SpecEvent == InitEvent /\ [][NextEvent]_vars

(***************************************************************************)
(* A run of process_csv: the users JSON is loaded, one action handles one  *)
(* row of the tweets CSV, the last one dumps the users mapping.            *)
(***************************************************************************)
\* users[uid] = {} for every uid, known or not
FreshUser(us, uid) == Assign(us, uid, EmptyDict)

\* if uid not in users: users[uid] = {}
WithUser(us, uid) == IF uid \in DOMAIN us THEN us ELSE Assign(us, uid, EmptyDict)

\* if "tweet_events" not in users[uid]: users[uid]["tweet_events"] = []
WithEvents(user) ==
    IF "tweet_events" \in DOMAIN user.v THEN user
    ELSE D(user.v @@ ("tweet_events" :> L(<<>>)))

EnsureEvents(us, uid) == [us EXCEPT ![uid] = WithEvents(@)]

ensure_user(us, uid) == EnsureEvents(WithUser(us, uid), uid)

\* the event put in front of the user's events
PrependEvent(us, uid, event) ==
    [us EXCEPT ![uid] =
        D([@.v EXCEPT !["tweet_events"] = L(<<event>> \o @.v)])]

\* users[user_id]["tweet_events"].append(event)
AppendEvent(us, uid, event) ==
    [us EXCEPT ![uid] =
        D([@.v EXCEPT !["tweet_events"] = L(Append(@.v, event))])]

\* ensure_user or the append raises: the loaded value of the user is no
\* dict, or its tweet_events is no list
AppendFails(us, uid) ==
    /\ uid \in DOMAIN us
    /\ \/ us[uid].t # "dict"
       \/ /\ "tweet_events" \in DOMAIN us[uid].v
          /\ us[uid].v["tweet_events"].t # "list"

\* events the users JSON already holds
OldEvent1 == [tweet_id |-> S(<<"9","0">>), is_retweet |-> FALSE]
OldEvent2 == [tweet_id |-> S(<<"9","1">>), is_retweet |-> TRUE]

\* the users JSON, as load_users_json returns it ({} for a missing file)
UsersJsons ==
    {<<>>,
     <<"1">> :> D([profile_features |-> D("followers_count" :> I(10))]),
     (<<"1">> :> D([profile_features |-> D("followers_count" :> I(10)),
                   label |-> S(<<"b","o","t">>),
                   tweet_events |-> L(<<OldEvent1, OldEvent2>>)])
      @@ <<"2">> :> D([label |-> S(<<"h","u","m","a","n">>),
                       tweet_events |-> L(<<>>)])),
     (<<"2">> :> D([tweet_events |-> L(<<OldEvent2>>)])
      @@ <<"3">> :> D([label |-> S(<<"b","o","t">>), tweet_events |-> None]))}

\* rows of the tweets CSV
TweetRows ==
    {MkDict([user_id |-> S(<<"1">>), id |-> S(<<"1","1">>),
             text |-> S(<<"a"," ","#","x"," ","h","t","t","p",":","/","/","t",".","c","o","/","a">>),
             source |-> S(<<"<","a",">","W","e","b","<","/","a",">">>),
             retweet_count |-> S(<<"3">>)]),
     MkDict([user_id |-> S(<<"1">>), id |-> S(<<"1","2">>), text |-> S(<<"b">>),
             retweeted_status_id |-> S(<<"5">>), num_hashtags |-> S(<<"2">>)]),
     MkDict([user_id |-> S(<<" ","1"," ">>), id |-> S(<<"1","3">>),
             in_reply_to_user_id |-> S(<<"7">>)]),
     MkDict([user_id |-> S(<<"2">>), id |-> S(<<"1","4">>), text |-> S(<<"@","u"," ","c">>)]),
     MkDict([user_id |-> S(<<"9">>), id |-> S(<<"1","5">>), text |-> None]),
     MkDict([user_id |-> S(<<>>), id |-> S(<<"1","6">>), text |-> S(<<"d">>)]),
     MkDict([user_id |-> S(<<" ">>), id |-> S(<<"1","7">>)]),
     MkDict([id |-> S(<<"1","8">>), text |-> S(<<"e">>)]),
     MkDict([user_id |-> S(<<"3">>), id |-> S(<<"1","9">>)])}

TweetFiles == UNION {[1..n -> TweetRows] : n \in 0..MaxRecords}

InitMerge ==
    /\ pc = "batch"
    /\ fn = "none"
    /\ args \in UsersJsons \X BOOLEAN     \* the users JSON, keep_text
    /\ ret = Pending
    /\ tool = "process_csv"
    /\ records \in TweetFiles
    /\ idx = 0
    /\ output_dict = <<>>
    /\ status = "running"
    /\ users = args[1]
    /\ count_rows = 0

\* the pass of the loop for a row with the stripped user ID uid: a row
\* without one is skipped, an exception of ensure_user or of the append ends
\* the tool before anything is written, else the event is appended
MergeStep(row, uid) ==
    IF uid = <<>>
    THEN /\ idx' = idx + 1
         /\ UNCHANGED <<users, count_rows, status>>
    ELSE IF AppendFails(users, uid)
    THEN /\ status' = "aborted"
         /\ UNCHANGED <<idx, users, count_rows>>
    ELSE /\ users' = AppendEvent(ensure_user(users, uid), uid,
                                 csv_event(row, args[2]))
         /\ count_rows' = count_rows + 1
         /\ idx' = idx + 1
         /\ status' = status

MergeRow ==
    /\ pc = "batch"
    /\ tool = "process_csv"
    /\ status = "running"
    /\ idx < Len(records)
    /\ MergeStep(records[idx + 1], csv_user_id(records[idx + 1]))
    /\ UNCHANGED <<pc, fn, args, ret, tool, records, output_dict>>

\* json.dump(users, f) after the loop, and the report of count_rows
WriteMerged ==
    /\ pc = "batch"
    /\ tool = "process_csv"
    /\ status = "running"
    /\ idx = Len(records)
    /\ status' = "written"
    /\ UNCHANGED <<pc, fn, args, ret, tool, records, idx, output_dict, users,
                   count_rows>>

NextMerge == MergeRow \/ WriteMerged

SpecMerge == InitMerge /\ [][NextMerge]_vars

(***************************************************************************)
(* remove_repeat_id.py: the duplicate IDs of several datasets.  A Python   *)
(* dict is the sequence of its items <<key, value>> in insertion order.    *)
(***************************************************************************)
HasKey(d, k) == \E i \in DOMAIN d : d[i][1] = k

\* d[k]
Lookup(d, k) == d[CHOOSE i \in DOMAIN d : d[i][1] = k][2]

Keys(d) == [i \in DOMAIN d |-> d[i][1]]

\* id_to_datasets[id_value].append(dataset_name) on a defaultdict(list)
AppendTo(d, k, x) ==
    IF HasKey(d, k)
    THEN [i \in DOMAIN d |->
             IF d[i][1] = k THEN <<k, Append(d[i][2], x)>> ELSE d[i]]
    ELSE Append(d, <<k, <<x>>>>)

\* for id_value in ids: ...
RECURSIVE NoteIds(_, _, _)
NoteIds(id_to_datasets, dataset_name, ids) ==
    IF ids = <<>> THEN id_to_datasets
    ELSE NoteIds(AppendTo(id_to_datasets, ids[1], dataset_name),
                 dataset_name, Tail(ids))

\* for dataset_name, ids in dataset_ids.items(): ...
RECURSIVE IdToDatasets(_, _)
IdToDatasets(id_to_datasets, dataset_ids) ==
    IF dataset_ids = <<>> THEN id_to_datasets
    ELSE IdToDatasets(
             NoteIds(id_to_datasets, dataset_ids[1][1], dataset_ids[1][2]),
             Tail(dataset_ids))

\* if len(datasets) > 1
ListedTwice(item) == Len(item[2]) > 1

find_duplicate_ids_across_datasets(dataset_ids) ==
    SelectSeq(IdToDatasets(<<>>, dataset_ids), ListedTwice)

\* the order of the characters of dataset names, by code point
NameChars == <<"-">> \o Digits \o UpperLetters \o <<"_">> \o LowerLetters
Ord(c) == CHOOSE i \in DOMAIN NameChars : NameChars[i] = c

\* s <= t for two strings
RECURSIVE StrLeq(_, _)
StrLeq(s, t) ==
    IF s = <<>> THEN TRUE
    ELSE IF t = <<>> THEN FALSE
    ELSE IF s[1] = t[1] THEN StrLeq(Tail(s), Tail(t))
    ELSE Ord(s[1]) < Ord(t[1])

\* (-len(x), x) <= (-len(y), y)
KeyLeq(x, y) == Len(x) > Len(y) \/ (Len(x) = Len(y) /\ StrLeq(x, y))

\* the dataset listed first
FirstListed(datasets) == datasets[1]

\* select_best_dataset_from_same_year: sorted(datasets, key=...)[0]
select_best_dataset_from_same_year(datasets) ==
    IF Len(datasets) = 1 THEN datasets[1]
    ELSE CHOOSE x \in Range(datasets) : \A y \in Range(datasets) : KeyLeq(x, y)

\* dataset_years.get(dataset, 0), dataset_years being used for lookups only
YearOf(dataset_years, dataset) ==
    IF dataset \in DOMAIN dataset_years THEN dataset_years[dataset] ELSE 0

\* the first loop of resolve_duplicates_by_year: the largest year, from -1
MaxYear(datasets, dataset_years) ==
    Max({0 - 1} \cup {YearOf(dataset_years, datasets[i]) : i \in DOMAIN datasets})

\* the second loop: the datasets of the largest year, in list order
BestDatasets(datasets, dataset_years, max_year) ==
    SelectSeq(datasets, LAMBDA d : YearOf(dataset_years, d) = max_year)

BestOf(best_datasets) ==
    IF Len(best_datasets) = 1 THEN best_datasets[1]
    ELSE select_best_dataset_from_same_year(best_datasets)

\* resolution[id_value] for the datasets of one duplicate ID
ResolveOne(datasets, dataset_years) ==
    BestOf(BestDatasets(datasets, dataset_years,
                        MaxYear(datasets, dataset_years)))

resolve_duplicates_by_year(duplicates, dataset_years) ==
    [i \in DOMAIN duplicates |->
        <<duplicates[i][1], ResolveOne(duplicates[i][2], dataset_years)>>]

\* ids.remove(x): the first occurrence goes
RemoveFirst(ids, x) ==
    SubSeq(ids, 1, FirstIndex(ids, {x}, 1) - 1)
    \o SubSeq(ids, FirstIndex(ids, {x}, 1) + 1, Len(ids))

\* for dataset_name in processed_datasets: if id_value in ...: ....remove()
RemoveFromEach(processed_datasets, x) ==
    [i \in DOMAIN processed_datasets |->
        <<processed_datasets[i][1],
          IF x \in Range(processed_datasets[i][2])
          THEN RemoveFirst(processed_datasets[i][2], x)
          ELSE processed_datasets[i][2]>>]

\* for id_value in duplicates.keys(): ...
RECURSIVE RemoveDuplicates(_, _)
RemoveDuplicates(processed_datasets, ids) ==
    IF ids = <<>> THEN processed_datasets
    ELSE RemoveDuplicates(RemoveFromEach(processed_datasets, ids[1]), Tail(ids))

\* if target_dataset in processed_datasets: ....append(id_value)
AddTo(processed_datasets, target_dataset, x) ==
    [i \in DOMAIN processed_datasets |->
        IF processed_datasets[i][1] = target_dataset
        THEN <<target_dataset, Append(processed_datasets[i][2], x)>>
        ELSE processed_datasets[i]]

\* for id_value, target_dataset in resolution.items(): ...
RECURSIVE Redistribute(_, _)
Redistribute(processed_datasets, resolution) ==
    IF resolution = <<>> THEN processed_datasets
    ELSE Redistribute(
             AddTo(processed_datasets, resolution[1][2], resolution[1][1]),
             Tail(resolution))

remove_duplicates_and_redistribute(dataset_ids, duplicates, resolution) ==
    Redistribute(RemoveDuplicates(dataset_ids, Keys(duplicates)), resolution)

(***************************************************************************)
(* One call of a function of remove_repeat_id.py, on the values            *)
(* process_all_tsv_files passes to it.                                     *)
(***************************************************************************)
\* the datasets, in the order the directory walk finds them
DatasetNames ==
    <<<<"b","o","t","-","b">>, <<"h","u","m","a","n","-","c">>,
      <<"b","o","t","-","a">>>>

UserIds == {<<"1">>, <<"2">>}

\* the ID list of a dataset, <<>> for a dataset without IDs, which
\* process_all_tsv_files leaves out of dataset_ids
IdLists == UNION {[1..n -> UserIds] : n \in 0..MaxIds}

RECURSIVE ItemsOf(_, _)
ItemsOf(names, lists) ==
    IF names = <<>> THEN <<>>
    ELSE (IF lists[1] = <<>> THEN <<>> ELSE <<<<names[1], lists[1]>>>>)
         \o ItemsOf(Tail(names), Tail(lists))

\* dataset_ids, which holds a dataset when process_all_tsv_files goes on
DatasetIdsInputs ==
    {ItemsOf(DatasetNames, lists) : lists \in [1..Len(DatasetNames) -> IdLists]}
    \ {<<>>}

\* dataset_years: the year of each dataset, 0 when its file name has none
YearMaps ==
    {[n \in Range(DatasetNames) |-> 2017],
     [n \in Range(DatasetNames) |-> IF n = DatasetNames[1] THEN 2019 ELSE 2017],
     [n \in Range(DatasetNames) |-> IF n = DatasetNames[2] THEN 2017 ELSE 2020],
     [n \in Range(DatasetNames) |-> IF n = DatasetNames[3] THEN 0 ELSE 2018],
     [n \in Range(DatasetNames) |-> IF n = DatasetNames[2] THEN 2015 ELSE 0]}

\* dataset_years, filled for the datasets of dataset_ids
YearsOf(dataset_ids, years) == [n \in Range(Keys(dataset_ids)) |-> years[n]]

DedupArgs(dataset_ids, duplicates, dataset_years) ==
    [find |-> <<dataset_ids>>,
     duplicates |-> duplicates,
     resolve |-> <<duplicates, dataset_years>>,
     remove |-> <<dataset_ids, duplicates,
                  resolve_duplicates_by_year(duplicates, dataset_years)>>]

DedupInputs ==
    {DedupArgs(d, find_duplicate_ids_across_datasets(d), YearsOf(d, y)) :
        d \in DatasetIdsInputs, y \in YearMaps}

InitDedup ==
    /\ pc = "call"
    /\ ret = Pending
    /\ \E in \in DedupInputs :
          \/ fn = "find_duplicate_ids_across_datasets" /\ args = in.find
          \/ /\ in.duplicates # <<>>             \* if duplicates:
             /\ \/ fn = "resolve_duplicates_by_year" /\ args = in.resolve
                \/ /\ fn = "remove_duplicates_and_redistribute"
                   /\ args = in.remove
    /\ NoBatch

CallFindDuplicates ==
    Return("find_duplicate_ids_across_datasets",
           find_duplicate_ids_across_datasets(args[1]))
CallResolve ==
    Return("resolve_duplicates_by_year",
           resolve_duplicates_by_year(args[1], args[2]))
CallRemove ==
    Return("remove_duplicates_and_redistribute",
           remove_duplicates_and_redistribute(args[1], args[2], args[3]))

NextDedup == CallFindDuplicates \/ CallResolve \/ CallRemove

SpecDedup == InitDedup /\ [][NextDedup]_vars

(***************************************************************************)
(* Properties of one call.                                                 *)
(***************************************************************************)
Done(f) == pc = "done" /\ fn = f
Returned == Done("extract_profile_features") /\ ret.t = "pair"

\* C1: for every raw user record, extract_profile_features returns a
\* (features, missing) pair and never raises.
C1_ExtractNeverRaises ==
    Done("extract_profile_features") => ret.t = "pair"

\* C2: whenever extract_profile_features returns, the keys of the missing map
\* with "_missing" removed are exactly the keys of the features map.
C2_KeySetsMatch ==
    Returned =>
        DOMAIN ret.missing = {k \o "_missing" : k \in DOMAIN ret.features}

C2_Witness ==
    /\ Returned
    /\ DOMAIN args[1].v = {"description", "entities"}
    /\ Cardinality(DOMAIN ret.features) = 39
    /\ "url_category_desc_missing" \in DOMAIN ret.missing

CountFeatures ==
    {"followers_count", "friends_count", "statuses_count", "favourites_count",
     "listed_count", "desc_length", "emoji_count", "name_length",
     "screen_name_length"}

\* C4: every integer count feature is an integer >= 0, also when the raw
\* field holds a negative number or a negative numeric string.
C4_CountsNonNegative ==
    Returned =>
        \A k \in CountFeatures : ret.features[k] \in Nat

Unparseable(x) == x # None /\ IsRaised(PyFloat(x))

\* C6: ff_ratio is 0.0 whenever the coerced friends_count is <= 0 or either
\* raw operand is unparseable, and followers_count / friends_count otherwise;
\* safe_div itself returns a float for all arguments (never raises) and 0.0
\* on an unparseable operand or a divisor that is not positive.
C6_FfRatioSafeDivision ==
    /\ Returned =>
        LET f == ret.features
            user == args[1]
        IN  /\ f.ff_ratio.t = "float"
            /\ f.friends_count <= 0 => f.ff_ratio = Zero
            /\ (\/ Unparseable(Get(user, "followers_count"))
                \/ Unparseable(Get(user, "friends_count"))) => f.ff_ratio = Zero
            /\ f.friends_count > 0 =>
                f.ff_ratio.num * f.friends_count = f.followers_count * f.ff_ratio.den
    /\ Done("safe_div") =>
        LET fa == IF args[1] = None THEN Zero ELSE PyFloat(args[1])
            fb == IF args[2] = None THEN Zero ELSE PyFloat(args[2])
        IN  /\ ret.t \in {"float", "inf", "nan"}
            /\ (IsRaised(fa) \/ IsRaised(fb)) => ret = Zero
            /\ (~IsRaised(fb) /\ ~FloatPositive(fb)) => ret = Zero
            /\ (fa.t = "float" /\ fb.t = "float" /\ fb.num > 0) =>
                /\ ret.t = "float"
                /\ ret.num * fa.den * fb.num = fa.num * fb.den * ret.den

C6_Witness ==
    /\ Returned
    /\ ret.features.followers_count = 10
    /\ ret.features.friends_count = 3
    /\ ret.features.ff_ratio = Fl(10, 3)

C7_TrueTexts ==
    {<<"1">>, <<"t","r","u","e">>, <<"y","e","s">>, <<"y">>, <<"t">>}
C7_FalseTexts ==
    {<<"0">>, <<"f","a","l","s","e">>, <<"n","o">>, <<"n">>, <<"f">>}

\* the text txt is the word w up to letter case
Reads(txt, w) ==
    /\ Len(txt) = Len(w)
    /\ \A i \in DOMAIN w : txt[i] = w[i] \/ LowerChar(txt[i]) = w[i]

\* C7: parse_bool returns True exactly on the texts 1, true, yes, y, t, False
\* exactly on 0, false, no, n, f (letter case and surrounding white space
\* ignored) and None on everything else, None included.
C7_ParseBoolThreeWay ==
    Done("parse_bool") =>
        LET x == args[1]
            txt == IF x = None THEN <<>> ELSE Strip(PyStr(x))
            yes == x # None /\ \E w \in C7_TrueTexts : Reads(txt, w)
            no == x # None /\ \E w \in C7_FalseTexts : Reads(txt, w)
        IN  /\ ret = B(TRUE) <=> yes
            /\ ret = B(FALSE) <=> no
            /\ ret = None <=> (~yes /\ ~no)

C7_Witness ==
    /\ Done("parse_bool")
    /\ args[1] = S(<<"m","a","y","b","e">>)
    /\ ret = None

\* C9: when the normalized description is empty, desc_length and emoji_count
\* are 0, the six description flags are False and url_category_desc is the
\* empty list, whatever entities.description.urls holds.
C9_EmptyDescriptionForcesEmpty ==
    (Returned /\ clean_text(Get(args[1], "description")) = <<>>) =>
        LET f == ret.features
        IN  /\ f.desc_length = 0
            /\ f.emoji_count = 0
            /\ ~f.has_url_in_desc
            /\ ~f.has_mention_in_desc
            /\ ~f.has_hashtag_in_desc
            /\ ~f.has_email_in_desc
            /\ ~f.has_phone_in_desc
            /\ ~f.has_promo_keyword_in_desc
            /\ f.url_category_desc = <<>>

\* C10: lang_timezone_mismatch is True exactly when the lang_hint feature is
\* "en" and the time-zone label contains "delhi" or the numeric UTC offset is
\* 19800 or 20700.
C10_MismatchFollowsLangHint ==
    Returned =>
        LET f == ret.features
            tz == Or(Get(args[1], "time_zone"), S(<<>>))
            raw == Get(args[1], "utc_offset")
            off == IF OffsetAbsent(raw) THEN None ELSE PyInt(raw)
        IN  f.lang_timezone_mismatch <=>
                /\ f.lang_hint = S(<<"e", "n">>)
                /\ \/ Contains(Lower(tz.v), <<"d","e","l","h","i">>)
                   \/ off.t = "int" /\ off.v \in {19800, 20700}

\* C11: for each count feature X the flag X_missing is true exactly when the
\* value of X in the features map of the same call is 0, whether or not the
\* raw record held the source field.
C11_CountFlagIffZero ==
    Returned =>
        \A k \in CountFeatures :
            ret.missing[k \o "_missing"] <=> (ret.features[k] = 0)

C11_Witness ==
    /\ Returned
    /\ Get(args[1], "followers_count") = S(<<"0">>)
    /\ Get(args[1], "friends_count") = I(3)
    /\ ret.features.followers_count = 0
    /\ ret.missing.followers_count_missing
    /\ ~ret.missing.friends_count_missing
    /\ ret.missing.statuses_count_missing

AlwaysResolved ==
    {"has_url_in_desc", "has_mention_in_desc", "has_hashtag_in_desc",
     "has_email_in_desc", "has_phone_in_desc", "has_promo_keyword_in_desc",
     "has_url_in_bio", "lang_timezone_mismatch", "location_generic_flag",
     "location_present", "profile_banner_url_present",
     "profile_use_background_image", "profile_background_tile",
     "time_zone_present", "utc_offset_present"}

\* C12: for every always-resolved boolean feature B the flag B_missing is
\* true exactly when B is False.
C12_BoolFlagIffFalse ==
    Returned =>
        \A k \in AlwaysResolved :
            ret.missing[k \o "_missing"] <=> (ret.features[k] = FALSE)

RatioFeatures ==
    {"ff_ratio", "name_digit_ratio", "name_special_char_ratio",
     "screen_name_digit_ratio", "screen_name_underscore_ratio",
     "name_screen_name_similarity"}

\* the float x lies in the closed interval [0.0, 1.0]
InUnitInterval(x) == x.t = "float" /\ 0 <= x.num /\ x.num <= x.den

\* C20: each of the six ratio features lies in [0.0, 1.0].
C20_RatiosInUnitInterval ==
    Returned => \A k \in RatioFeatures : InUnitInterval(ret.features[k])

(***************************************************************************)
(* Properties of a batch run.                                              *)
(***************************************************************************)
\* what the tool does with record i handled on its own
OutcomeOf(i) ==
    CASE tool = "process_user_file.json" -> json_entry(records[i])
      [] tool = "process_user_file.csv" -> csv_row(records[i])
      [] tool = "process_fox8_json_streaming" -> fox8_entry(records[i])
      [] OTHER -> Skip

Finished == status \in {"written", "aborted"}

\* no record of the file fails anywhere but in feature extraction
OnlyExtractionFails ==
    \A i \in DOMAIN records :
        OutcomeOf(i).kind = "raise" => OutcomeOf(i).at = "extract_profile_features"

\* C3: when a tool has finished with a file in which records fail only in
\* feature extraction, the output is written, it holds every well-formed
\* record with a resolvable ID, and nothing else: the failing records alone
\* are dropped.
C3_BadRecordNeverAborts ==
    (Finished /\ OnlyExtractionFails) =>
        /\ status = "written"
        /\ DOMAIN output_dict =
              {OutcomeOf(i).key : i \in {j \in DOMAIN records : OutcomeOf(j).kind = "put"}}

\* row i is the last handled row stored under its user ID
LastStored(i) ==
    /\ i \in 1..idx
    /\ OutcomeOf(i).kind = "put"
    /\ \A j \in (i + 1)..idx :
          OutcomeOf(j).kind = "put" => OutcomeOf(j).key # OutcomeOf(i).key

\* the CSV text raw reads as true: one of 1, true, yes, y, t up to case and
\* surrounding white space
ReadsTrue(raw) ==
    /\ raw.t = "str"
    /\ \E w \in C7_TrueTexts : Reads(Strip(raw.v), w)

\* the entry stored for the CSV row holds, for each of the five columns, True
\* when the column text reads as true and False for any other value
StoredStrict(row, o) ==
    o.kind = "put" =>
        \A f \in Range(bool_fields_to_fix) :
            output_dict[o.key].profile_features[f] = B(ReadsTrue(Get(row, f)))

\* C8: on the CSV path every stored entry has verified, protected,
\* default_profile_image, default_profile and geo_enabled equal to True or
\* False, never null, and their five _missing flags False; the entry of the
\* row handled last holds True where the column text reads as true and False
\* for any other, empty or absent value.
C8_CsvBooleansStrict ==
    tool = "process_user_file.csv" =>
        /\ \A k \in DOMAIN output_dict :
              \A f \in Range(bool_fields_to_fix) :
                  /\ output_dict[k].profile_features[f] \in {B(TRUE), B(FALSE)}
                  /\ output_dict[k].profile_features_missing[f \o "_missing"] = FALSE
        /\ idx > 0 => StoredStrict(records[idx], OutcomeOf(idx))

C8_Witness ==
    /\ tool = "process_user_file.csv"
    /\ status = "written"
    /\ \E i \in DOMAIN records :
          /\ Get(records[i], "verified") = S(<<" ","y","e","s"," ">>)
          /\ Get(records[i], "protected") = S(<<"m","a","y","b","e">>)
          /\ Get(records[i], "default_profile_image") = S(<<>>)
          /\ "default_profile" \in DOMAIN records[i].v
          /\ Get(records[i], "default_profile") = None
          /\ "geo_enabled" \notin DOMAIN records[i].v
          /\ LastStored(i)
          /\ LET f == output_dict[OutcomeOf(i).key].profile_features
             IN  /\ f.verified = B(TRUE)
                 /\ f.protected = B(FALSE)
                 /\ f.default_profile_image = B(FALSE)
                 /\ f.default_profile = B(FALSE)
                 /\ f.geo_enabled = B(FALSE)

\* the value names an ID: it is neither null nor the empty text
Given(x) == x # None /\ x # S(<<>>)

\* the first value of vals that names an ID, None when none does
FirstGiven(vals) ==
    IF \E i \in DOMAIN vals : Given(vals[i])
    THEN vals[Min({i \in DOMAIN vals : Given(vals[i])})]
    ELSE None

\* the fields process_user_file looks an ID up in, in order
IdFields ==
    IF tool = "process_user_file.csv" THEN <<"id", "user_id", "uid">>
    ELSE <<"id_str", "id">>

\* the object that carries the ID: the "user" of a JSON entry that has one
IdHolder(rec) ==
    IF tool = "process_user_file.json" /\ "user" \in DOMAIN rec.v
    THEN rec.v["user"] ELSE rec

ResolvedId(rec) ==
    FirstGiven([k \in DOMAIN IdFields |-> Get(IdHolder(rec), IdFields[k])])

\* the record resolves to an ID (the text None stands for a missing one)
Resolves(rec) == ResolvedId(rec) # None /\ PyStr(ResolvedId(rec)) # NoneText

\* C22: at every point of a run of process_user_file the output keys are
\* exactly the string forms of the IDs of the records handled so far that
\* resolve, the ID of a JSON record being its id_str, else its id, and that
\* of a CSV row the first non-empty of its id, user_id and uid columns; a
\* record that does not resolve has no entry.
C22_KeyedByResolvedId ==
    tool \in {"process_user_file.json", "process_user_file.csv"} =>
        DOMAIN output_dict =
            {PyStr(ResolvedId(records[i])) :
                i \in {j \in 1..idx : Resolves(records[j])}}

C22_Witness ==
    /\ tool = "process_user_file.json"
    /\ status = "written"
    /\ Len(records) = 2
    /\ ~Resolves(records[1])
    /\ "id_str" \notin DOMAIN records[2].v
    /\ Get(records[2], "id") = I(2)
    /\ DOMAIN output_dict = {<<"2">>}

\* the last handled record that resolves to the ID with string form k
LastFor(k) ==
    Max({i \in 1..idx :
            Resolves(records[i]) /\ PyStr(ResolvedId(records[i])) = k})

\* the entry under k is the one the outcome o of a record stores
EntryFrom(o, k) == o.kind = "put" /\ o.key = k /\ output_dict[k] = o.value

\* C29: at every point of a run of process_user_file the output holds as
\* many entries as the records handled so far resolve to distinct IDs, and
\* the entry of an ID is the pair of profile_features and
\* profile_features_missing computed from the last handled record that
\* resolves to it.
C29_LastRecordWins ==
    tool \in {"process_user_file.json", "process_user_file.csv"} =>
        /\ Cardinality(DOMAIN output_dict) =
              Cardinality({PyStr(ResolvedId(records[i])) :
                              i \in {j \in 1..idx : Resolves(records[j])}})
        /\ \A k \in DOMAIN output_dict : EntryFrom(OutcomeOf(LastFor(k)), k)

C29_Witness ==
    /\ tool = "process_user_file.json"
    /\ status = "written"
    /\ Len(records) = 2
    /\ Get(records[1], "id_str") = S(<<"1">>)
    /\ Get(records[2], "id_str") = S(<<"1">>)
    /\ Get(records[1], "followers_count") = I(10)
    /\ Get(records[2], "followers_count") = I(7)
    /\ DOMAIN output_dict = {<<"1">>}
    /\ output_dict[<<"1">>].profile_features.followers_count = 7
    /\ output_dict[<<"1">>].profile_features_missing.friends_count_missing = TRUE

\* the handled entries of the streamed array that carry a user_id
WithUserId == {i \in 1..idx : Get(records[i], "user_id") # None}

\* C26: in a run of process_fox8_json_streaming every output key is the
\* string form of the user_id of a handled entry that has one, so an entry
\* whose user_id is missing or null leaves no entry, and no key is the text
\* None.
C26_NullUserIdSkipped ==
    tool = "process_fox8_json_streaming" =>
        /\ NoneText \notin DOMAIN output_dict
        /\ DOMAIN output_dict \subseteq
              {PyStr(Get(records[i], "user_id")) : i \in WithUserId}

\* the streamed entry has the shape the tool reads without failing: a dict
\* whose user_tweets, when it has any, is a list that starts with a dict
WellShaped(e) ==
    /\ e.t = "dict"
    /\ LET tw == GetOr(e, "user_tweets", L(<<>>))
       IN  Truthy(tw) => tw.t = "list" /\ tw.v[1].t = "dict"

\* the user information of the entry: the "user" of its first tweet
UserInfo(e) == GetOr(e.v["user_tweets"].v[1], "user", EmptyDict)

\* the entry has a user ID, tweets and user information
HasUser(e) ==
    /\ WellShaped(e)
    /\ PyStr(Get(e, "user_id")) # <<>>
    /\ Truthy(GetOr(e, "user_tweets", L(<<>>)))
    /\ Truthy(UserInfo(e))

\* extract_profile_features fails on the user information
ProfileFails(info) ==
    info.t # "dict" \/ IsRaised(extract_profile_features(info))

\* extract_tweet_features succeeds on the tweet
TweetSucceeds(tweet) == ~tweet_raises(tweet)

\* the events of the tweets on which extract_tweet_features succeeds, in
\* input order
EventsOfGood(good) == [j \in DOMAIN good |-> extract_tweet_features(good[j])]

\* the entry e, handled last, is in the output with the events of all its
\* tweets but the failing ones
WrittenWithEvents(e) ==
    /\ PyStr(Get(e, "user_id")) \in DOMAIN output_dict
    /\ output_dict[PyStr(Get(e, "user_id"))].tweet_events =
          EventsOfGood(SelectSeq(e.v["user_tweets"].v, TweetSucceeds))

Unavailable == L(<<"unavailable">>)

\* the selected field of a URL object: the first non-empty one of
\* expanded_url, url, display_url; None without one
SelectedField(obj) ==
    IF Truthy(Get(obj, "expanded_url")) THEN Get(obj, "expanded_url")
    ELSE IF Truthy(Get(obj, "url")) THEN Get(obj, "url")
    ELSE IF Truthy(Get(obj, "display_url")) THEN Get(obj, "display_url")
    ELSE None

\* the URL a URL object or a string carries, None for anything else
CarriedBy(x) ==
    IF x.t = "str" THEN x
    ELSE IF x.t = "dict" THEN SelectedField(x)
    ELSE None

\* the one URL of an entity that is a bare string, a URL object, or a list
\* of one of these; None for every other entity
CarriedUrl(e) ==
    IF e.t = "list" THEN (IF Len(e.v) = 1 THEN CarriedBy(e.v[1]) ELSE None)
    ELSE CarriedBy(e)

\* the entity is null, an empty list, mapping or string, or a list out of
\* which no URL can be taken
AbsentEntity(e) ==
    \/ e \in {None, L(<<>>), D(<<>>), S(<<>>)}
    \/ e.t = "list" /\ \A i \in DOMAIN e.v : CarriedBy(e.v[i]) = None

PlaceholderWords == {<<"n","a","n">>, <<"n","o","n","e">>, <<"n","u","l","l">>}

\* the one URL of the entity is nan, none or null in any letter case
PlaceholderEntity(e) ==
    /\ CarriedUrl(e).t = "str"
    /\ Lower(CarriedUrl(e).v) \in PlaceholderWords

\* C13: url_domain_categories returns exactly ["unavailable"] for an absent
\* or empty URL entity and for an entity whose URL, a bare string or the
\* selected field of a URL object, is nan, none or null in any letter case.
C13_AbsentIsUnavailable ==
    (/\ Done("url_domain_categories")
     /\ AbsentEntity(args[1]) \/ PlaceholderEntity(args[1]))
        => ret = Unavailable

\* the URL with http:// in front when it has no scheme
HttpForm(u, parsed) ==
    IF parsed.scheme = <<>> THEN S(HttpPrefix \o u.v) ELSE u

\* the entity carries one URL, a text that urlparse accepts
CarriesText(e) ==
    /\ CarriedUrl(e).t = "str"
    /\ CarriedUrl(e).v # <<>>
    /\ ~IsRaised(urlparse(CarriedUrl(e)))

\* C14: in every shape of entity the URL of a URL object is its first
\* non-empty field in the order expanded_url, url, display_url, and a URL
\* without a scheme is classified as its http:// form is.
C14_SchemelessAsHttp ==
    (Done("url_domain_categories") /\ CarriesText(args[1])) =>
        ret = url_domain_categories(
                  HttpForm(CarriedUrl(args[1]), urlparse(CarriedUrl(args[1]))))

StrippedPrefixes == {<<"w","w","w",".">>, <<"m",".">>, <<"m","o","b","i","l","e",".">>, <<"a","m","p",".">>}

\* C15: the normalized host is lower-case, starts with none of www., m.,
\* mobile. and amp., and is left unchanged by a second normalization.
C15_NormalizeHostIdempotent ==
    Done("_normalize_host") =>
        /\ Lower(ret.v) = ret.v
        /\ \A p \in StrippedPrefixes : ~StartsWith(ret.v, p)
        /\ normalize_host(ret.v) = ret.v

\* the category the path rules of google.com give a URL, "none" without one
GoogleRule(host, path) ==
    IF StartsWith(path, <<"/","m","a","p","s">>) THEN "maps/nav"
    ELSE IF StartsWith(path, <<"/","f","o","r","m","s">>) THEN "forms/surveys"
    ELSE IF \/ StartsWith(path, <<"/","d","r","i","v","e">>)
            \/ StartsWith(path, <<"/","f","i","l","e">>)
            \/ StartsWith(path, <<"/","d","o","c">>)
            \/ host = <<"d","o","c","s",".","g","o","o","g","l","e",".","c","o","m">>
    THEN "file/cloud"
    ELSE "none"

\* the entity carries one URL on google.com or a subdomain of it
OnGoogle(e) ==
    /\ CarriesText(e)
    /\ urlparse(CarriedUrl(e)).scheme \in {<<"h","t","t","p">>, <<"h","t","t","p","s">>}
    /\ \/ Lower(urlparse(CarriedUrl(e)).netloc) = <<"g","o","o","g","l","e",".","c","o","m">>
       \/ EndsWith(Lower(urlparse(CarriedUrl(e)).netloc), <<".">> \o <<"g","o","o","g","l","e",".","c","o","m">>)

\* C17: for one URL on google.com url_domain_categories follows the path:
\* /maps gives ["maps/nav"], /forms gives ["forms/surveys"], and /drive,
\* /file, /doc or the host docs.google.com give ["file/cloud"].
C17_GooglePathRules ==
    (Done("url_domain_categories") /\ OnGoogle(args[1])) =>
        LET parsed == urlparse(CarriedUrl(args[1]))
            rule == GoogleRule(Lower(parsed.netloc), Lower(parsed.path))
        IN  rule # "none" => ret = L(<<rule>>)

\* the order in which the lists are tested
ListOrder ==
    <<"short_link", "social", "messaging", "forum/community", "qa",
      "video/streaming", "music/audio", "blog/writing", "news", "encyclopedia",
      "education/research", "gov/ngo", "finance", "ecommerce", "job/career",
      "image/hosting", "file/cloud", "dev/code", "maps/nav", "forms/surveys",
      "app_store", "sports", "link_aggregator">>

\* the domain list of a category
ListOf(c) == (CHOOSE r \in Range(CategoryRules) : r[2] = c)[1]

\* the category of the earliest list, in ListOrder, that holds the host
EarliestList(hits) ==
    IF hits = {} THEN "personal/other" ELSE ListOrder[Min(hits)]

\* the category by the priority order: top-level domain, google.com path,
\* earliest list, personal/other
ByPriority(host, byPath) ==
    IF EndsWith(host, <<".","g","o","v">>) \/ host = <<"g","o","v",".","u","k">> \/ EndsWith(host, <<".">> \o <<"g","o","v",".","u","k">>)
    THEN "gov/ngo"
    ELSE IF EndsWith(host, <<".","e","d","u">>) THEN "education/research"
    ELSE IF byPath # "none" THEN byPath
    ELSE EarliestList({i \in DOMAIN ListOrder :
                          match_any(host, ListOf(ListOrder[i]))})

\* the URL text as url_domain_category parses it
ParsedText(raw) ==
    urlparse(S(IF Contains(raw, <<":","/","/">>) THEN raw ELSE HttpPrefix \o raw))

\* the category of a parsed URL by the priority order
ExpectedOfHost(host, path) ==
    ByPriority(host,
               IF host = <<"g","o","o","g","l","e",".","c","o","m">> \/ EndsWith(host, <<".">> \o <<"g","o","o","g","l","e",".","c","o","m">>)
               THEN GooglePath(host, path) ELSE "none")

\* C16: a URL with a host gets the category of the first rule that matches,
\* in the order .gov/.edu top-level domain, google.com path cases, then the
\* lists from short_link to link_aggregator; a host in several lists gets
\* the earliest one's category and a host in none gets "personal/other".
C16_FirstMatchWins ==
    (/\ Done("url_domain_category")
     /\ args[1].t = "str"
     /\ ret.t = "cat"
     /\ ret.v # "unavailable") =>
        LET parsed == ParsedText(Strip(args[1].v))
        IN  ret.v = ExpectedOfHost(normalize_host(parsed.netloc),
                                   Lower(parsed.path))

C16_Witness ==
    /\ Done("url_domain_category")
    /\ args[1] = S(<<"l","i","n","k","e","d","i","n",".","c","o","m","/","i","n","/","x">>)
    /\ match_any(<<"l","i","n","k","e","d","i","n",".","c","o","m">>, SOCIAL)
    /\ match_any(<<"l","i","n","k","e","d","i","n",".","c","o","m">>, JOB)
    /\ ret = Cat("social")

\* the category of each voting URL
VoteTable ==
    {<<S(<<"h","t","t","p","s",":","/","/","t","w","i","t","t","e","r",".","c","o","m","/","a">>), "social">>,
     <<S(<<"h","t","t","p","s",":","/","/","n","y","t","i","m","e","s",".","c","o","m","/","b">>), "news">>,
     <<S(<<"h","t","t","p","s",":","/","/","g","i","t","h","u","b",".","c","o","m","/","c">>), "dev/code">>,
     <<S(<<"h","t","t","p","s",":","/","/","e","s","p","n",".","c","o","m","/","d">>), "sports">>,
     <<S(<<"h","t","t","p","s",":","/","/","b","i","t",".","l","y","/","e">>), "short_link">>,
     <<S(<<"h","t","t","p","s",":","/","/","e","x","a","m","p","l","e",".","o","r","g","/","f">>), "personal/other">>,
     <<S(<<"h","t","t","p",":","/","/","/","g">>), "unavailable">>}

VoteCategory(u) == (CHOOSE r \in VoteTable : r[1] = u)[2]

\* the entity is a list of URL objects that each hold one voting URL
IsVote(e) ==
    /\ e.t = "list"
    /\ e.v # <<>>
    /\ \A i \in DOMAIN e.v :
          /\ e.v[i].t = "dict"
          /\ DOMAIN e.v[i].v = {"expanded_url"}
          /\ \E r \in VoteTable : r[1] = e.v[i].v.expanded_url

\* the categories of the URLs of a voting entity, in order
VotesOf(e) == [i \in DOMAIN e.v |-> VoteCategory(e.v[i].v.expanded_url)]

\* C18: "short_link" is in the list returned by url_domain_categories only
\* when it is the sole category of all extracted URLs; one URL of another
\* category removes it.
C18_ShortLinkOnlyAlone ==
    (Done("url_domain_categories") /\ ret.t = "list") =>
        /\ "short_link" \in Range(ret.v) => ret.v = <<"short_link">>
        /\ IsVote(args[1]) =>
              ("short_link" \in Range(ret.v)
                  <=> Range(VotesOf(args[1])) = {"short_link"})

C18_Witness ==
    /\ Done("url_domain_categories")
    /\ IsVote(args[1])
    /\ VotesOf(args[1]) = <<"dev/code", "short_link">>
    /\ ret = L(<<"dev/code">>)

PriorityList ==
    <<"social", "news", "encyclopedia", "blog/writing", "ecommerce",
      "personal/other", "short_link", "unavailable">>

\* the place of a category in the priority list, one past its end for a
\* category outside it
PlaceOf(c) ==
    IF c \in Range(PriorityList)
    THEN CHOOSE i \in DOMAIN PriorityList : PriorityList[i] = c
    ELSE Len(PriorityList) + 1

\* C19: the list returned by url_domain_categories holds each counted
\* category once, by falling count; equal counts are ordered by the place in
\* the priority list, categories outside it last and among themselves in
\* the order they were first met.
C19_OrderedByCountThenPriority ==
    (Done("url_domain_categories") /\ IsVote(args[1])) =>
        LET cats == VotesOf(args[1])
            r == ret.v
            Count(c) == Cardinality({i \in DOMAIN cats : cats[i] = c})
            First(c) == Min({i \in DOMAIN cats : cats[i] = c})
        IN  /\ ret.t = "list"
            /\ Range(r) \subseteq Range(cats)
            /\ Range(cats) \ {"short_link"} \subseteq Range(r)
            /\ \A i, j \in DOMAIN r :
                  i < j =>
                      \/ Count(r[i]) > Count(r[j])
                      \/ /\ Count(r[i]) = Count(r[j])
                         /\ PlaceOf(r[i]) < PlaceOf(r[j])
                      \/ /\ Count(r[i]) = Count(r[j])
                         /\ PlaceOf(r[i]) = PlaceOf(r[j])
                         /\ PlaceOf(r[i]) = Len(PriorityList) + 1
                         /\ First(r[i]) < First(r[j])

C19_Witness ==
    /\ Done("url_domain_categories")
    /\ IsVote(args[1])
    /\ VotesOf(args[1]) = <<"sports", "dev/code", "social">>
    /\ ret = L(<<"social", "sports", "dev/code">>)

(***************************************************************************)
(* Properties of one call of clean_text.                                   *)
(***************************************************************************)
AsciiControl == {"\t", "\n", DEL}
NoControl(s) == \A i \in DOMAIN s : s[i] \notin AsciiControl
NoSpaceRun(s) == \A i \in 1..(Len(s) - 1) : ~(IsSpace(s[i]) /\ IsSpace(s[i + 1]))
Trimmed(s) == s = <<>> \/ (~IsSpace(s[1]) /\ ~IsSpace(s[Len(s)]))

\* C21: clean_text applied to its own result returns that result; the result
\* holds no control character (0x00-0x1F, 0x7F), no two adjacent white-space
\* characters and no white space at either end, and null gives the empty
\* string.
C21_CleanTextIdempotent ==
    (pc = "done" /\ fn = "clean_text") =>
        /\ clean_text(ret) = ret.v
        /\ NoControl(ret.v)
        /\ NoSpaceRun(ret.v)
        /\ Trimmed(ret.v)
        /\ args[1] = None => ret.v = <<>>

C21_Witness ==
    /\ pc = "done"
    /\ fn = "clean_text"
    /\ args[1] = S(<<" ","a","\t",DEL," ","b",NBSP>>)
    /\ ret = S(<<"a"," ","b">>)

(***************************************************************************)
(* Properties of one call of a tweet feature extractor.                    *)
(***************************************************************************)
\* the reference x is present and means something: it is not null, and its
\* text (for a number, its digits) is none of the words
Meaningful(x, words) ==
    CASE x.t = "none" -> FALSE
      [] x.t = "str" -> Strip(x.v) \notin words
      [] x.t = "int" -> IntToStr(x.v) \notin words
      [] x.t = "dict" -> DOMAIN x.v # {}

\* the fields that hold the retweeted-status reference of the input
RetweetFields ==
    IF fn = "csv_event" THEN {"retweeted_status_id"}
    ELSE {"retweeted_status_id", "retweeted_status"}

ReplyFields == {"in_reply_to_status_id", "in_reply_to_user_id"}

\* C24: the event of either extractor has is_retweet true exactly when a
\* retweeted-status reference of the input is not null, not empty and not
\* the text NULL, and is_reply true exactly when its in-reply-to-status or
\* in-reply-to-user reference is not null, empty, 0 or NULL; the flags are
\* the same function of the reference values for both extractors.
C24_FlagsFollowReferences ==
    (pc = "done" /\ fn \in {"extract_tweet_features", "csv_event"}) =>
        /\ ret.is_retweet =
              (\E k \in RetweetFields :
                  Meaningful(Get(args[1], k), {<<>>, NullWord}))
        /\ ret.is_reply =
              (\E k \in ReplyFields :
                  Meaningful(Get(args[1], k), {<<>>, <<"0">>, NullWord}))

(***************************************************************************)
(* Properties of a run of process_csv.                                     *)
(***************************************************************************)
\* the users mapping as it was loaded
Loaded == args[1]

\* the user the row belongs to: its user_id without surrounding white
\* space, empty when the row has none
RowUserId(row) ==
    IF Get(row, "user_id").t = "str" THEN Strip(Get(row, "user_id").v) ELSE <<>>

\* the events the user had in the users JSON
OldEvents(u) ==
    IF u \in DOMAIN Loaded /\ "tweet_events" \in DOMAIN Loaded[u].v
    THEN Loaded[u].v["tweet_events"].v ELSE <<>>

\* the events of the rows 1..n of user u, in the order of the rows
RECURSIVE RowEvents(_, _)
RowEvents(u, n) ==
    IF n = 0 THEN <<>>
    ELSE RowEvents(u, n - 1)
         \o (IF RowUserId(records[n]) = u
             THEN <<csv_event(records[n], args[2])>> ELSE <<>>)

\* the handled rows that have a user ID
RowsWithUser == {i \in 1..idx : RowUserId(records[i]) # <<>>}

HasEvents(user) ==
    /\ user.t = "dict"
    /\ "tweet_events" \in DOMAIN user.v
    /\ user.v["tweet_events"].t = "list"

\* C23: at every point of a run of process_csv, and so when the output is
\* written, the tweet_events of every user are the events the user had in
\* the users JSON, in their order, followed by one event per handled row
\* of that user, in the order of the rows; every handled row with a user ID
\* has its user in the mapping, a row without one adds nothing, and
\* count_rows is the number of rows with a user ID, which is the number of
\* events appended.
C23_EventsInEncounterOrder ==
    tool = "process_csv" =>
        /\ \A u \in DOMAIN users :
              HasEvents(users[u]) =>
                  users[u].v["tweet_events"].v = OldEvents(u) \o RowEvents(u, idx)
        /\ \A i \in RowsWithUser :
              /\ RowUserId(records[i]) \in DOMAIN users
              /\ HasEvents(users[RowUserId(records[i])])
        /\ count_rows = Cardinality(RowsWithUser)

C23_Witness ==
    /\ tool = "process_csv"
    /\ status = "written"
    /\ Len(records) = 2
    /\ OldEvents(<<"1">>) = <<OldEvent1, OldEvent2>>
    /\ Get(records[1], "id") = S(<<"1","2">>)
    /\ Get(records[2], "id") = S(<<"1","1">>)
    /\ count_rows = 2
    /\ Len(users[<<"1">>].v["tweet_events"].v) = 4
    /\ users[<<"1">>].v["tweet_events"].v[1] = OldEvent1
    /\ users[<<"1">>].v["tweet_events"].v[3].tweet_id = S(<<"1","2">>)
    /\ users[<<"1">>].v["tweet_events"].v[4].tweet_id = S(<<"1","1">>)

IsPrefix(s, t) == Len(s) <= Len(t) /\ SubSeq(t, 1, Len(s)) = s

\* the user u of the users JSON is kept: every key but tweet_events has its
\* loaded value, no key but tweet_events is new, and the loaded events are
\* the first of its events
Kept(u) ==
    /\ u \in DOMAIN users
    /\ Loaded[u].t = "dict" =>
          /\ users[u].t = "dict"
          /\ DOMAIN Loaded[u].v \subseteq DOMAIN users[u].v
          /\ DOMAIN users[u].v \subseteq DOMAIN Loaded[u].v \cup {"tweet_events"}
          /\ \A k \in DOMAIN Loaded[u].v \ {"tweet_events"} :
                users[u].v[k] = Loaded[u].v[k]
          /\ HasEvents(Loaded[u]) =>
                /\ HasEvents(users[u])
                /\ IsPrefix(OldEvents(u), users[u].v["tweet_events"].v)

\* C30: at every point of a run of process_csv, and so in the output,
\* every user of the users JSON is present with all its keys other than
\* tweet_events unchanged and its loaded events first and in order, and
\* every other user is the user of a handled row and has tweet_events as
\* its only key.
C30_OnlyAddsToUsers ==
    tool = "process_csv" =>
        /\ \A u \in DOMAIN Loaded : Kept(u)
        /\ \A u \in DOMAIN users \ DOMAIN Loaded :
              /\ \E i \in RowsWithUser : RowUserId(records[i]) = u
              /\ DOMAIN users[u].v = {"tweet_events"}

C30_Witness ==
    /\ tool = "process_csv"
    /\ status = "written"
    /\ DOMAIN Loaded = {<<"1">>, <<"2">>}
    /\ OldEvents(<<"1">>) = <<OldEvent1, OldEvent2>>
    /\ DOMAIN users = {<<"1">>, <<"2">>, <<"9">>}
    /\ Len(users[<<"1">>].v["tweet_events"].v) = 3
    /\ DOMAIN users[<<"9">>].v = {"tweet_events"}
    /\ users[<<"1">>].v["label"] = S(<<"b","o","t">>)

(***************************************************************************)
(* Properties of one call of a function of remove_repeat_id.py.            *)
(***************************************************************************)
\* no dataset of the list has a later year than dataset d
Newest(d, datasets, dataset_years) ==
    \A i \in DOMAIN datasets :
        YearOf(dataset_years, datasets[i]) <= YearOf(dataset_years, d)

\* the datasets of the list that have the year of dataset d
SameYear(d, datasets, dataset_years) ==
    {e \in Range(datasets) :
        YearOf(dataset_years, e) = YearOf(dataset_years, d)}

\* d has the longer name, or a name as long that is alphabetically no later
Preferred(d, e) == Len(d) > Len(e) \/ (Len(d) = Len(e) /\ StrLeq(d, e))

RightChoice(d, datasets, dataset_years) ==
    /\ d \in Range(datasets)
    /\ Newest(d, datasets, dataset_years)
    /\ \A e \in SameYear(d, datasets, dataset_years) : Preferred(d, e)

\* C25: resolve_duplicates_by_year assigns every duplicate ID to a dataset
\* that contains it and has the largest year among those (an unknown year
\* counting as 0); among the datasets of that year it is the one with the
\* longest name, and among equally long names the alphabetically first.
C25_NewestThenLongestName ==
    Done("resolve_duplicates_by_year") =>
        /\ Keys(ret) = Keys(args[1])
        /\ \A i \in DOMAIN args[1] :
              RightChoice(ret[i][2], args[1][i][2], args[2])

C25_Witness ==
    /\ Done("resolve_duplicates_by_year")
    /\ args[1] = <<<<<<"1">>, <<DatasetNames[1], DatasetNames[2], DatasetNames[3]>>>>,
                   <<<<"2">>, <<DatasetNames[1], DatasetNames[3]>>>>>>
    /\ \A n \in Range(DatasetNames) : YearOf(args[2], n) = 2017
    /\ ret = <<<<<<"1">>, DatasetNames[2]>>, <<<<"2">>, DatasetNames[3]>>>>

\* the number of times x is listed in ids
Occurrences(ids, x) == Cardinality({i \in DOMAIN ids : ids[i] = x})

RECURSIVE Total(_, _)
Total(datasets, x) ==
    IF datasets = <<>> THEN 0
    ELSE Occurrences(datasets[1][2], x) + Total(Tail(datasets), x)

AllIds(datasets) == UNION {Range(datasets[i][2]) : i \in DOMAIN datasets}

OnlyIn(datasets, x, target) ==
    /\ Total(datasets, x) = 1
    /\ x \in Range(Lookup(datasets, target))

Unflagged(ids, flagged) == SelectSeq(ids, LAMBDA x : x \notin flagged)

\* C28: after remove_duplicates_and_redistribute every flagged ID is listed
\* exactly once over all datasets, in the dataset its resolution names; no ID
\* of the original datasets is lost and the IDs that were not flagged stay
\* where they were.
C28_FlaggedIdsOccurOnce ==
    Done("remove_duplicates_and_redistribute") =>
        /\ \A i \in DOMAIN args[3] : OnlyIn(ret, args[3][i][1], args[3][i][2])
        /\ AllIds(ret) = AllIds(args[1])
        /\ \A i \in DOMAIN args[1] :
              Unflagged(ret[i][2], Range(Keys(args[2])))
                  = Unflagged(args[1][i][2], Range(Keys(args[2])))

\* C28 without its case of an ID listed more than once inside a dataset
NoRepeats(datasets) ==
    \A i \in DOMAIN datasets :
        \A x \in Range(datasets[i][2]) : Occurrences(datasets[i][2], x) = 1

C28_HoldsWithoutRepeats ==
    (Done("remove_duplicates_and_redistribute") /\ NoRepeats(args[1])) =>
        /\ \A i \in DOMAIN args[3] : OnlyIn(ret, args[3][i][1], args[3][i][2])
        /\ AllIds(ret) = AllIds(args[1])
        /\ \A i \in DOMAIN args[1] :
              Unflagged(ret[i][2], Range(Keys(args[2])))
                  = Unflagged(args[1][i][2], Range(Keys(args[2])))
====
